---------------------------- MODULE Spec2Model ----------------------------
(***************************************************************************)
(* A model of clippings (src/public/app.js): the server's request          *)
(* handlers /api/compile and /api/email with collectArticles and           *)
(* fetchArticle, and the document compositor buildPdf.                     *)
(*                                                                         *)
(* Strings are sequences of one-character strings, so that trimming,       *)
(* joining and splitting are computed and not assumed.  Lengths on the     *)
(* page are in tenths of a PDF point (MAX_IMG_HEIGHT = 226.8pt = 2268).    *)
(***************************************************************************)
EXTENDS Integers, Sequences, FiniteSets, TLC

VARIABLES
  \* ---- one request to /api/compile or /api/email ----
  route,          \* "compile" | "email"
  body,           \* req.body: [isArray, urls, email, includeQuiz]
  env,            \* [apiKey, kindle]: OPENAI_API_KEY, DEFAULT_KINDLE_EMAIL set?
  spc,            \* the handler's position
  cleaned,        \* the cleaned URL list
  ci,             \* collectArticles: index of the URL being processed (1-based)
  fst,            \* fetchArticle: position for the current URL
  finalUrl,       \* fetchArticle: the URL whose HTML is in `html`
  articles,       \* collectArticles: articles
  skipped,        \* collectArticles: skipped
  fetchLog,       \* every HTML fetch made: <<input index, url fetched>>
  outcomes,       \* history: how fetchArticle ended for each URL processed
  comprehension,  \* result of generateComprehension (Null | sequence)
  bpCalls,        \* every invocation of buildPdf: [n, quiz]
  pdfBuffer,      \* what buildPdf returned to the handler (Null before)
  mailer,         \* what ensureMailer returned to the handler (Null before)
  mails,          \* every invocation of transporter.sendMail
  response,       \* the response sent (Null while none)
  \* ---- one call of buildPdf(articles, comprehension) ----
  nArts,          \* articles.length
  compr,          \* the comprehension argument (Null | Str(sections))
  ppc,            \* buildPdf's position
  ai,             \* index of the article being added (0-based, as in the code)
  nBlocks,        \* article.blocks.length of the article being added
  bi,             \* blocks of it handled so far
  cur,            \* the document cursor: [y |-> doc.y, page |-> number of pages]
  artPages,       \* history: per article, the pages of its first and last write,
                  \* the page addArticle found and whether a title had room on it
  img,            \* history: what the preceding block did, if it was an image
  imgSkips,       \* history: the image blocks skipped so far
  si,             \* trailing sections: index of the section being rendered (1-based)
  qlog,           \* history: what the trailing sections rendered, in order
  buffers,        \* the chunks the 'data' listener has pushed
  docEnded,       \* doc.end() was called
  endListener,    \* doc.on('end', ...) is registered
  endFired,       \* the document's 'end' event was emitted
  result,         \* the value buildPdf's promise resolved with (Null before)
  \* ---- one call of extractBlocks(contentHtml, baseUrl) ----
  dom,            \* document.body of the content
  blocks,         \* the blocks returned (with the node each came from)
  epc,            \* extractBlocks' position
  \* ---- two calls of buildPdf on the same arguments, block by block ----
  tpc,            \* the position both calls are at
  tArts,          \* articles.length
  tai,            \* index of the article being added (0-based)
  tn,             \* article.blocks.length of the article being added
  tbi,            \* blocks of it handled so far
  docs,           \* per call, its document: [c |-> cursor, images |-> drawn]
  seen,           \* per call, what its latest step did to its document
  sameNet,        \* every image fetch so far ended alike in both calls
  \* ---- the page in the browser ----
  urlsInput,      \* urlsInput.value
  emailInput,     \* emailInput.value
  disabled,       \* submitBtn, emailDropdown and every menu item: .disabled
  menuHidden,     \* emailMenu has class 'hidden'
  modalHidden,    \* modal has class 'hidden'
  downloadHidden, \* downloadWrap has class 'hidden'
  statusEl,       \* statusEl.textContent, by the message it is
  reqs            \* the requests started, in order: [kind, pc, res, off]

srvVars == <<route, body, env, spc, cleaned, ci, fst, finalUrl, articles,
             skipped, fetchLog, outcomes, comprehension, bpCalls, pdfBuffer,
             mailer, mails, response>>

pdfVars == <<nArts, compr, ppc, ai, nBlocks, bi, cur, artPages, img, imgSkips, si,
             qlog, buffers, docEnded, endListener, endFired, result>>

extVars == <<dom, blocks, epc>>

twinVars == <<tpc, tArts, tai, tn, tbi, docs, seen, sameNet>>

pageVars == <<urlsInput, emailInput, disabled, menuHidden, modalHidden,
              downloadHidden, statusEl, reqs>>

\* what the request handlers, buildPdf, extractBlocks, the pair of buildPdf
\* calls and the page leave alone
exceptSrv == <<pdfVars, extVars, twinVars, pageVars>>
exceptPdf == <<srvVars, extVars, twinVars, pageVars>>
exceptExt == <<srvVars, pdfVars, twinVars, pageVars>>
exceptTwin == <<srvVars, pdfVars, extVars, pageVars>>
exceptPage == <<srvVars, pdfVars, extVars, twinVars>>

vars == <<srvVars, pdfVars, extVars, twinVars, pageVars>>

Null == [t |-> "null", v |-> <<>>]

\* ------------------------------------------------------------------ strings

WS == {" ", "\n"}

RECURSIVE TrimLeft(_)
TrimLeft(s) ==
  IF s # <<>> /\ Head(s) \in WS THEN TrimLeft(Tail(s)) ELSE s

RECURSIVE TrimRight(_)
TrimRight(s) ==
  IF s # <<>> /\ s[Len(s)] \in WS THEN TrimRight(SubSeq(s, 1, Len(s) - 1)) ELSE s

\* String.prototype.trim
Trim(s) == TrimRight(TrimLeft(s))

\* Array.prototype.join(sep) over strings
RECURSIVE Join(_, _)
Join(list, sep) ==
  IF list = <<>> THEN <<>>
  ELSE IF Len(list) = 1 THEN list[1]
  ELSE list[1] \o sep \o Join(Tail(list), sep)

RECURSIVE FilterNonEmpty(_)
FilterNonEmpty(list) ==
  IF list = <<>> THEN <<>>
  ELSE IF Head(list) = <<>> THEN FilterNonEmpty(Tail(list))
  ELSE <<Head(list)>> \o FilterNonEmpty(Tail(list))

\* a JSON value of the body: a string, or something that is no string
Str(s) == [t |-> "str", v |-> s]
NotStr == [t |-> "other", v |-> <<>>]

\* urls.map((u) => (typeof u === 'string' ? u.trim() : '')).filter(Boolean)
CleanUrls(b) ==
  LET raw == IF b.isArray THEN b.urls ELSE <<>>
      mapped == [k \in 1..Len(raw) |->
                   IF raw[k].t = "str" THEN Trim(raw[k].v) ELSE <<>>]
  IN FilterNonEmpty(mapped)

\* typeof req.body.email === 'string' ? req.body.email.trim() : ''
RequestedEmail(b) == IF b.email.t = "str" THEN Trim(b.email.v) ELSE <<>>

\* /^[^\s@]+@[^\s@]+\.[^\s@]+$/
isValidEmail(email) ==
  \E a \in 2..Len(email) : \E d \in (a + 2)..(Len(email) - 1) :
    /\ email[a] = "@"
    /\ email[d] = "."
    /\ \A k \in (1..Len(email)) \ {a} : email[k] \notin WS \cup {"@"}


\* ------------------------------------------------------------------ bounds

MaxUrls == 3

\* the values a JSON client can put in req.body.urls
RawUrls == {Str(<<"a">>), Str(<<" ", "b">>), Str(<<" ">>), NotStr}

\* the values of req.body.email: absent, valid (padded), invalid
RawEmails == {NotStr, Str(<<"u", "@", "h", ".", "c", " ">>), Str(<<"u", "@", "h">>)}

\* the print-friendly URL a page may point to
PrintUrl == <<"p">>

RECURSIVE SeqsUpTo(_, _)
SeqsUpTo(S, n) ==
  IF n = 0 THEN {<<>>}
  ELSE LET shorter == SeqsUpTo(S, n - 1)
       IN shorter \cup {Append(q, x) : q \in shorter, x \in S}

\* req.body; when urls is no array its value is not read
Bodies(r) ==
  {b \in [isArray : BOOLEAN,
          urls : SeqsUpTo(RawUrls, MaxUrls),
          email : IF r = "email" THEN RawEmails ELSE {NotStr},
          includeQuiz : {"false", "absent"}] :
     ~b.isArray => b.urls = <<>>}

\* a comprehension section as generateComprehension parses it
Section(nq, na) ==
  [title |-> <<"T">>,
   questions |-> [k \in 1..nq |-> <<"q", k>>],
   answers |-> [k \in 1..na |-> <<"a", k>>]]

\* ------------------------------------------------------------------ server

ErrorResponse(st) ==
  [status |-> st, kind |-> "error", hdr |-> Null, skipped |-> <<>>, doc |-> Null]

\* mutant: the header names the first skipped URL only
SkippedHeader_First(skips) ==
  IF Len(skips) # 0 THEN Str(skips[1]) ELSE Null

\* res.setHeader('X-Clippings-Skipped', skipped.join(',')) only if skipped.length
SkippedHeader(skips) ==
  IF Len(skips) # 0 THEN Str(Join(skips, <<",">>)) ELSE Null

PdfResponse(pdf) ==
  [status |-> 200, kind |-> "pdf", hdr |-> SkippedHeader(skipped),
   skipped |-> <<>>, doc |-> pdf]

SentResponse ==
  [status |-> 200, kind |-> "sent", hdr |-> Null, skipped |-> skipped, doc |-> Null]

SrvInit ==
  /\ route \in {"compile", "email"}
  /\ body \in Bodies(route)
  /\ env \in [apiKey : BOOLEAN, kindle : BOOLEAN]
  /\ spc = "recv"
  /\ cleaned = <<>>
  /\ ci = 0
  /\ fst = "none"
  /\ finalUrl = <<>>
  /\ articles = <<>>
  /\ skipped = <<>>
  /\ fetchLog = <<>>
  /\ outcomes = <<>>
  /\ comprehension = Null
  /\ bpCalls = <<>>
  /\ pdfBuffer = Null
  /\ mailer = Null
  /\ mails = <<>>
  /\ response = Null

\* the handlers up to `await collectArticles(cleaned)`
Receive ==
  /\ spc = "recv"
  /\ cleaned' = CleanUrls(body)
  /\ IF Len(cleaned') = 0
       THEN /\ response' = ErrorResponse(400)
            /\ spc' = "done"
            /\ UNCHANGED <<ci, fst>>
       ELSE IF /\ route = "email"
               /\ RequestedEmail(body) # <<>>
               /\ ~isValidEmail(RequestedEmail(body))
         THEN /\ response' = ErrorResponse(400)
              /\ spc' = "done"
              /\ UNCHANGED <<ci, fst>>
         ELSE /\ spc' = "collect"
              /\ ci' = 1
              /\ fst' = "fetch"
              /\ UNCHANGED response
  /\ UNCHANGED <<pdfBuffer, mailer, route, body, env, finalUrl, articles, skipped, fetchLog,
                 outcomes, comprehension, bpCalls, mails>>
  /\ UNCHANGED exceptSrv

InFetch == spc = "collect" /\ ci <= Len(cleaned)

\* history: fetchArticle(url) threw at `stage`, or returned
Thrown(stage) == [ok |-> FALSE, stage |-> stage, from |-> finalUrl]
Returned == [ok |-> TRUE, stage |-> "parse", from |-> finalUrl]

\* mutant: the catch logs and pushes nothing
collectCatch_NoPush(url) ==
  /\ ci' = ci + 1
  /\ fst' = "fetch"
  /\ finalUrl' = <<>>
  /\ UNCHANGED <<articles, skipped>>

\* mutant: the catch records the URL that was fetched last
collectCatch_FinalUrl(url) ==
  /\ skipped' = Append(skipped, IF finalUrl # <<>> THEN finalUrl ELSE url)
  /\ ci' = ci + 1
  /\ fst' = "fetch"
  /\ finalUrl' = <<>>
  /\ UNCHANGED articles

\* collectArticles' catch: skipped.push(url), and the loop goes on
collectCatch(url) ==
  /\ skipped' = Append(skipped, url)
  /\ ci' = ci + 1
  /\ fst' = "fetch"
  /\ finalUrl' = <<>>
  /\ UNCHANGED articles

\* articles.push(article), and the loop goes on
collectPush(article) ==
  /\ articles' = Append(articles, article)
  /\ ci' = ci + 1
  /\ fst' = "fetch"
  /\ finalUrl' = <<>>
  /\ UNCHANGED skipped

\* findPrintableUrl: null, the page itself, or another URL
Printable(url) == {Null, Str(url), Str(PrintUrl)}

\* mutant: any alternate that is found is fetched
Substitute_Always(p, url) == p # Null

\* if (printableUrl && printableUrl !== url)
Substitute(p, url) == p # Null /\ p.v # url

\* fetchArticle: fetchWithUA(url), res.text(), findPrintableUrl(html, url)
FetchFirst ==
  /\ InFetch /\ fst = "fetch"
  /\ LET url == cleaned[ci] IN
     /\ fetchLog' = Append(fetchLog, <<ci, url>>)
     /\ \/ /\ collectCatch(url)  \* fetch rejects, status not OK, or the DOM fails
           /\ outcomes' = Append(outcomes, Thrown("fetch"))
        \/ \E p \in Printable(url) :
             /\ IF Substitute(p, url)
                  THEN fst' = "print" /\ finalUrl' = p.v
                  ELSE fst' = "parse" /\ finalUrl' = url
             /\ UNCHANGED <<ci, articles, skipped, outcomes>>
  /\ UNCHANGED <<pdfBuffer, mailer, route, body, env, spc, cleaned, comprehension, bpCalls,
                 mails, response>>
  /\ UNCHANGED exceptSrv

\* fetchArticle: res = await fetchWithUA(printableUrl); html = await res.text()
FetchPrint ==
  /\ InFetch /\ fst = "print"
  /\ LET url == cleaned[ci] IN
     /\ fetchLog' = Append(fetchLog, <<ci, finalUrl>>)
     /\ \/ /\ collectCatch(url)
           /\ outcomes' = Append(outcomes, Thrown("print"))
        \/ fst' = "parse" /\ UNCHANGED <<ci, finalUrl, articles, skipped, outcomes>>
  /\ UNCHANGED <<pdfBuffer, mailer, route, body, env, spc, cleaned, comprehension, bpCalls,
                 mails, response>>
  /\ UNCHANGED exceptSrv

\* a relative image source in the content of a page
RelSrc == <<"i">>

\* new URL(src, baseUrl).href for a relative src: the source under the base.
\* A URL of the model stands for the directory it names.
resolveUrl(src, baseUrl) == baseUrl \o <<"/">> \o src

\* the Article fetchArticle returns: createDom(html, url), extractBlocks(.., url).
\* from is the URL whose HTML was parsed, base the baseUrl extractBlocks got,
\* imgSrc the src of the image block of a relative <img> in the content.
Article(url, from, hasTitle) ==
  [url |-> url, title |-> IF hasTitle THEN <<"t">> ELSE url,
   base |-> url, from |-> from, imgSrc |-> resolveUrl(RelSrc, url)]

\* fetchArticle: createDom, Readability.parse, extractBlocks
ParseArticle ==
  /\ InFetch /\ fst = "parse"
  /\ LET url == cleaned[ci] IN
     \/ /\ collectCatch(url)     \* no article, no content, or a DOM failure
        /\ outcomes' = Append(outcomes, Thrown("parse"))
     \/ /\ \E hasTitle \in BOOLEAN : collectPush(Article(url, finalUrl, hasTitle))
        /\ outcomes' = Append(outcomes, Returned)
  /\ UNCHANGED <<pdfBuffer, mailer, route, body, env, spc, cleaned, fetchLog, comprehension,
                 bpCalls, mails, response>>
  /\ UNCHANGED exceptSrv

\* req.body.includeQuiz !== false
IncludeQuiz(b) == b.includeQuiz # "false"

\* mutant: the handler does not test for an empty article list
NoArticles_Unchecked(arts) == FALSE

\* !articles.length
NoArticles(arts) == Len(arts) = 0

\* collectArticles returns; if (!articles.length) return res.status(502)
CollectReturn ==
  /\ spc = "collect" /\ ci > Len(cleaned)
  /\ IF NoArticles(articles)
       THEN /\ response' = ErrorResponse(502)
            /\ spc' = "done"
       ELSE /\ spc' = IF IncludeQuiz(body) THEN "quiz" ELSE "build"
            /\ UNCHANGED response
  /\ UNCHANGED <<pdfBuffer, mailer, route, body, env, cleaned, ci, fst, finalUrl, articles, skipped,
                 fetchLog, outcomes, comprehension, bpCalls, mails>>
  /\ UNCHANGED exceptSrv

\* what the model's reply parses to when it is an array
QuizPayloads == {<<>>, <<Section(3, 2)>>}

\* what can go wrong inside the try of generateComprehension
QuizFailures == {"rejected", "notOk", "unparsable", "notArray"}

\* mutant: the failure leaves generateComprehension and reaches the handler's
\* catch
quizCatch_Rethrow(why) ==
  /\ comprehension' = Null
  /\ response' = ErrorResponse(500)
  /\ spc' = "done"

\* catch (err) { console.error(...); return null; }
quizCatch(why) ==
  /\ comprehension' = Null
  /\ spc' = "build"
  /\ UNCHANGED response

\* generateComprehension: null without a key or on any failure, else the array
GenerateComprehension ==
  /\ spc = "quiz"
  /\ IF ~env.apiKey
       THEN comprehension' = Null /\ spc' = "build" /\ UNCHANGED response
       ELSE \/ \E why \in QuizFailures : quizCatch(why)
            \/ \E parsed \in QuizPayloads :
                 /\ comprehension' = Str(parsed)
                 /\ spc' = "build"
                 /\ UNCHANGED response
  /\ UNCHANGED <<pdfBuffer, mailer, route, body, env, cleaned, ci, fst, finalUrl, articles, skipped,
                 fetchLog, outcomes, bpCalls, mails>>
  /\ UNCHANGED exceptSrv

\* the bytes buildPdf returns, by what was composed
PdfOf(arts, quiz) ==
  [t |-> "pdf",
   v |-> [k \in 1..Len(arts) |-> arts[k].url],
   quiz |-> quiz # Null /\ Len(quiz.v) # 0]

\* ensureMailer(): { transporter, from } when SMTP_HOST, SMTP_USER, SMTP_PASS
\* and a sender are set; it throws otherwise (Null)
ensureMailer(configured) == IF configured THEN Str(<<"f">>) ELSE Null

\* requestedEmail || DEFAULT_KINDLE_EMAIL (<<>> when neither is there)
Destination(b, e) ==
  IF RequestedEmail(b) # <<>> THEN RequestedEmail(b)
  ELSE IF e.kindle THEN <<"k">> ELSE <<>>

\* mutant: the handler does not test the destination
NoDestination_Unchecked(destination) == FALSE

\* !destination
NoDestination(destination) == destination = <<>>

\* await buildPdf(articles, comprehension), then the handler's tail
BuildPdf ==
  /\ spc = "build"
  /\ bpCalls' = Append(bpCalls, [n |-> Len(articles), quiz |-> comprehension])
  /\ \/ /\ response' = ErrorResponse(500)      \* buildPdf rejects
        /\ spc' = "done"
        /\ UNCHANGED <<pdfBuffer, mailer>>
     \/ /\ route = "compile"
        /\ pdfBuffer' = PdfOf(articles, comprehension)
        /\ response' = PdfResponse(pdfBuffer')
        /\ spc' = "done"
        /\ UNCHANGED mailer
     \/ /\ route = "email"
        /\ pdfBuffer' = PdfOf(articles, comprehension)
        /\ \E configured \in BOOLEAN :         \* ensureMailer reads process.env
             /\ mailer' = ensureMailer(configured)
             /\ IF mailer' = Null
                  THEN response' = ErrorResponse(500) /\ spc' = "done"
                  ELSE IF NoDestination(Destination(body, env))
                    THEN response' = ErrorResponse(400) /\ spc' = "done"
                    ELSE spc' = "mail" /\ UNCHANGED response
  /\ UNCHANGED <<route, body, env, cleaned, ci, fst, finalUrl, articles, skipped,
                 fetchLog, outcomes, comprehension, mails>>
  /\ UNCHANGED exceptSrv

\* await transporter.sendMail(...); res.json({ status: 'sent', skipped })
SendMail ==
  /\ spc = "mail"
  /\ mails' = Append(mails,
                [to |-> Destination(body, env), from |-> mailer.v,
                 doc |-> pdfBuffer])
  /\ \/ response' = SentResponse
     \/ response' = ErrorResponse(500)
  /\ spc' = "done"
  /\ UNCHANGED <<pdfBuffer, mailer, route, body, env, cleaned, ci, fst, finalUrl,
                 articles, skipped, fetchLog, outcomes, comprehension, bpCalls>>
  /\ UNCHANGED exceptSrv

\* no buildPdf is modelled step by step under Spec
PdfIdle ==
  /\ nArts = 0
  /\ compr = Null
  /\ ppc = "idle"
  /\ ai = 0
  /\ nBlocks = 0
  /\ bi = 0
  /\ cur = [y |-> 0, page |-> 0]
  /\ artPages = <<>>
  /\ img = Null
  /\ imgSkips = 0
  /\ si = 0
  /\ qlog = <<>>
  /\ buffers = <<>>
  /\ docEnded = FALSE
  /\ endListener = FALSE
  /\ endFired = FALSE
  /\ result = Null

\* a text node, an element, an <img> with its src attribute (<<>> when absent)
TextNode(t) == [type |-> "text", tag |-> "", text |-> t, src |-> <<>>, kids |-> <<>>]
El(tag, kids) == [type |-> "el", tag |-> tag, text |-> <<>>, src |-> <<>>, kids |-> kids]
Img(src) == [type |-> "el", tag |-> "IMG", text |-> <<>>, src |-> src, kids |-> <<>>]

\* no extractBlocks is modelled outside SpecExtract
ExtIdle ==
  /\ dom = TextNode(<<>>)
  /\ blocks = <<>>
  /\ epc = "idle"

\* no pair of buildPdf calls is running
TwinIdle ==
  /\ tpc = "idle"
  /\ tArts = 0
  /\ tai = 0
  /\ tn = 0
  /\ tbi = 0
  /\ docs = <<>>
  /\ seen = <<>>
  /\ sameNet = TRUE

\* the page is not open
PageIdle ==
  /\ urlsInput = <<>>
  /\ emailInput = <<>>
  /\ disabled = FALSE
  /\ menuHidden = TRUE
  /\ modalHidden = TRUE
  /\ downloadHidden = TRUE
  /\ statusEl = ""
  /\ reqs = <<>>

Init == SrvInit /\ PdfIdle /\ ExtIdle /\ TwinIdle /\ PageIdle

Next ==
  \/ Receive
  \/ FetchFirst
  \/ FetchPrint
  \/ ParseArticle
  \/ CollectReturn
  \/ GenerateComprehension
  \/ BuildPdf
  \/ SendMail

Spec == Init /\ [][Next]_vars

\* ------------------------------------------------------------------ extractor

UpperCase ==
  <<"A", "B", "C", "D", "E", "F", "G", "H", "I", "J", "K", "L", "M", "N", "O",
    "P", "Q", "R", "S", "T", "U", "V", "W", "X", "Y", "Z">>

LowerCase ==
  <<"a", "b", "c", "d", "e", "f", "g", "h", "i", "j", "k", "l", "m", "n", "o",
    "p", "q", "r", "s", "t", "u", "v", "w", "x", "y", "z">>

\* String.prototype.toLowerCase
ToLower(s) ==
  [k \in 1..Len(s) |->
     IF \E u \in 1..26 : UpperCase[u] = s[k]
       THEN LowerCase[CHOOSE u \in 1..26 : UpperCase[u] = s[k]]
       ELSE s[k]]

\* text.replace(/\s+/g, ' '): every run of whitespace becomes one space
RECURSIVE Collapse(_)
Collapse(s) ==
  IF s = <<>> THEN <<>>
  ELSE IF Head(s) \in WS
    THEN IF Len(s) > 1 /\ s[2] \in WS THEN Collapse(Tail(s))
         ELSE <<" ">> \o Collapse(Tail(s))
    ELSE <<Head(s)>> \o Collapse(Tail(s))

\* cleanText(text)
cleanText(text) == Trim(Collapse(text))

\* String.prototype.includes
Includes(t, p) ==
  \E k \in 0..(Len(t) - Len(p)) : SubSeq(t, k + 1, k + Len(p)) = p

\* the phrases of isNoiseText
phrases ==
  <<
    <<"f", "o", "l", "l", "o", "w", " ", "t", "h", "i", "s", " ", "p", "u",
      "b", "l", "i", "c", "a", "t", "i", "o", "n">>,
    <<"f", "o", "l", "l", "o", "w", " ", "u", "s", " ", "o", "n">>,
    <<"f", "o", "l", "l", "o", "w", " ", "m", "e", " ", "o", "n">>,
    <<"k", "e", "e", "p", " ", "u", "p", " ", "w", "i", "t", "h", " ", "o",
      "u", "r", " ", "l", "a", "t", "e", "s", "t", " ", "a", "r", "t", "i",
      "c", "l", "e", "s">>,
    <<"s", "u", "p", "p", "o", "r", "t", " ", "o", "u", "r", " ", "w", "o",
      "r", "k">>,
    <<"s", "u", "b", "s", "c", "r", "i", "b", "e", " ", "b", "e", "l", "o",
      "w">>,
    <<"s", "u", "b", "s", "c", "r", "i", "b", "e">>,
    <<"r", "e", "a", "d", "y", " ", "f", "o", "r", " ", "m", "o", "r", "e">>,
    <<"d", "i", "s", "c", "u", "s", "s", "i", "o", "n", " ", "a", "b", "o",
      "u", "t", " ", "t", "h", "i", "s", " ", "p", "o", "s", "t">>,
    <<"j", "o", "i", "n", " ", "t", "h", "e", " ", "d", "i", "s", "c", "u",
      "s", "s", "i", "o", "n">>,
    <<"s", "i", "g", "n", " ", "u", "p", " ", "f", "o", "r", " ", "o", "u",
      "r", " ", "n", "e", "w", "s", "l", "e", "t", "t", "e", "r">>,
    <<"r", "e", "c", "e", "i", "v", "e", " ", "p", "i", "e", "c", "e", "s",
      " ", "l", "i", "k", "e", " ", "t", "h", "i", "s", " ", "i", "n", " ",
      "y", "o", "u", "r", " ", "i", "n", "b", "o", "x">>,
    <<"g", "e", "t", " ", "n", "e", "w", " ", "p", "o", "s", "t", "s">>,
    <<"b", "e", "c", "o", "m", "e", " ", "a", " ", "s", "u", "b", "s", "c",
      "r", "i", "b", "e", "r">>,
    <<"u", "n", "l", "o", "c", "k", " ", "f", "u", "l", "l", " ", "a", "c",
      "c", "e", "s", "s">>
  >>

\* isNoiseText(text)
isNoiseText(text) ==
  LET t == ToLower(cleanText(text))
  IN t = <<>> \/ \E k \in 1..Len(phrases) : Includes(t, phrases[k])


\* node.textContent
RECURSIVE textContent(_)
textContent(node) ==
  IF node.type = "text" THEN node.text
  ELSE IF node.kids = <<>> THEN <<>>
  ELSE textContent(node.kids[1]) \o textContent(El("", Tail(node.kids)))

\* the descendants of a node in document order, each with its path
RECURSIVE Descendants(_, _)
Descendants(node, path) ==
  IF node.kids = <<>> THEN <<>>
  ELSE LET n == Len(node.kids)
           last == Append(path, n)
       IN Descendants(El("", SubSeq(node.kids, 1, n - 1)), path)
            \o <<[node |-> node.kids[n], path |-> last]>>
            \o Descendants(node.kids[n], last)

\* node.querySelector(tag): the first descendant with that tag, or Null
querySelector(node, path, tag) ==
  LET found == SelectSeq(Descendants(node, path), LAMBDA d : d.node.tag = tag)
  IN IF found = <<>> THEN Null ELSE [t |-> "node", v |-> found[1]]

\* /^H[1-6]$/.test(tag)
Headings == {"H1", "H2", "H3", "H4", "H5", "H6"}

\* Number(tag[1]) || 2
HeadingLevel(tag) ==
  CHOOSE n \in 1..6 : tag = <<"H1", "H2", "H3", "H4", "H5", "H6">>[n]

\* mutant: pushText keeps every text that is not empty
Keeps_Unfiltered(text) == text # <<>>

\* if (cleaned && !isNoiseText(cleaned))
Keeps(text) == text # <<>> /\ ~isNoiseText(text)

\* a block, with the path of the node it was made from
Block(type, text, level, src, at) ==
  [type |-> type, text |-> text, level |-> level, src |-> src, at |-> at]

\* pushText(text)
pushText(text, at) ==
  IF Keeps(cleanText(text)) THEN <<Block("text", cleanText(text), 0, <<>>, at)>>
  ELSE <<>>

\* pushHeading(text, tag)
pushHeading(text, tag, at) ==
  IF Keeps(cleanText(text))
    THEN <<Block("heading", cleanText(text), HeadingLevel(tag), <<>>, at)>>
  ELSE <<>>

\* blocks.push({ type: 'image', src: resolved }) if (img && img.src)
pushImage(found, baseUrl) ==
  IF found # Null /\ found.v.node.src # <<>>
    THEN <<Block("image", <<>>, 0, resolveUrl(found.v.node.src, baseUrl),
                 found.v.path)>>
  ELSE <<>>

\* pushText(caption.textContent) if (caption)
pushCaption(found) ==
  IF found # Null THEN pushText(textContent(found.v.node), found.v.path) ELSE <<>>

\* the blocks traverse pushes at a node itself
AtNode(node, path, baseUrl) ==
  IF node.type = "text" THEN pushText(node.text, path)
  ELSE IF node.tag \in Headings THEN pushHeading(textContent(node), node.tag, path)
  ELSE IF node.tag \in {"P", "LI", "BLOCKQUOTE"} THEN pushText(textContent(node), path)
  ELSE IF node.tag = "FIGURE"
    THEN pushImage(querySelector(node, path, "IMG"), baseUrl)
           \o pushCaption(querySelector(node, path, "FIGCAPTION"))
  ELSE IF node.tag = "IMG"
    THEN pushImage([t |-> "node", v |-> [node |-> node, path |-> path]], baseUrl)
  ELSE <<>>

\* mutant: a paragraph's children are traversed after its text is pushed
Returns_NotParagraphs(node) ==
  \/ node.type = "text"
  \/ node.tag \in Headings \cup {"LI", "BLOCKQUOTE", "FIGURE"}
  \/ node.tag = "IMG" /\ node.src # <<>>

\* traverse returns at this node without visiting node.childNodes
Returns(node) ==
  \/ node.type = "text"
  \/ node.tag \in Headings \cup {"P", "LI", "BLOCKQUOTE", "FIGURE"}
  \/ node.tag = "IMG" /\ node.src # <<>>

\* traverse(node), and node.childNodes.forEach(traverse) from child k on
RECURSIVE traverse(_, _, _), traverseFrom(_, _, _, _)
traverse(node, path, baseUrl) ==
  AtNode(node, path, baseUrl)
    \o IF Returns(node) THEN <<>> ELSE traverseFrom(node, path, baseUrl, 1)

traverseFrom(node, path, baseUrl, k) ==
  IF k > Len(node.kids) THEN <<>>
  ELSE traverse(node.kids[k], Append(path, k), baseUrl)
         \o traverseFrom(node, path, baseUrl, k + 1)

\* extractBlocks(contentHtml, baseUrl): traverse(document.body)
extractBlocks(body_, baseUrl) == traverse(body_, <<>>, baseUrl)

\* texts of the content: plain, whitespace only, boilerplate, and boilerplate
\* in other case and spacing
TextHi == <<" ", "H", "i", "\n">>
TextBlank == <<" ", "\n">>
TextNoise == <<"S", "u", "b", "s", "c", "r", "i", "b", "e">>
TextNoiseSpaced == <<"G", "e", "t", " ", " ", "N", "e", "w", "\n", "P", "o", "s", "t", "s">>

ExtTexts == {TextHi, TextBlank, TextNoise, TextNoiseSpaced}

MaxKids == 2

\* the nodes inside a block-level element
Inner ==
  {TextNode(t) : t \in ExtTexts}
    \cup {Img(RelSrc), Img(<<>>)}
    \cup {El("B", <<TextNode(TextHi)>>), El("P", <<TextNode(TextHi)>>),
          El("FIGCAPTION", <<TextNode(TextHi)>>),
          El("FIGCAPTION", <<TextNode(TextNoise)>>)}

\* the elements of the content
Outer ==
  {El(tag, kids) : tag \in {"H1", "H3", "H7", "P", "LI", "BLOCKQUOTE", "FIGURE", "DIV"},
                   kids \in SeqsUpTo(Inner, MaxKids)}

\* document.body of the content HTML
Fragments == {El("BODY", <<o, x>>) : o \in Outer, x \in Inner}

\* the baseUrl extractBlocks is called with
BaseUrl == <<"a">>

ExtInit ==
  /\ dom \in Fragments
  /\ blocks = <<>>
  /\ epc = "start"

\* const blocks = extractBlocks(article.content, url)
Extract ==
  /\ epc = "start"
  /\ blocks' = extractBlocks(dom, BaseUrl)
  /\ epc' = "done"
  /\ UNCHANGED dom
  /\ UNCHANGED exceptExt

\* ------------------------------------------------------------------ compositor
\* Lengths are tenths of a point.  A letter page with margin 50, as
\* new PDFDocument({ margin: 50, autoFirstPage: true }) makes it.

PAGE_WIDTH == 6120
PAGE_HEIGHT == 7920
MARGIN == 500
MAX_IMG_HEIGHT == 2268

MaxArticles == 2
MaxBlocks == 3

\* rendered line counts of titles, paragraphs and headings
TitleLines == {1}
TextLines == {1, 49}
HeadingLines == {1, 2}

\* native sizes <<width, height>> of images, in pixels: a tracking pixel, a
\* large and a small 2:1 image, a tall one
ImageSizes == {<<1, 1>>, <<1024, 512>>, <<100, 50>>, <<300, 3000>>}

Min(a, b) == IF a <= b THEN a ELSE b
Max(a, b) == IF a >= b THEN a ELSE b

\* pageWidth(): doc.page.width - margins.left - margins.right
pageWidth == PAGE_WIDTH - MARGIN - MARGIN

\* pageBottom(): doc.page.height - margins.bottom
pageBottom == PAGE_HEIGHT - MARGIN

\* doc.currentLineHeight(true), taken as the nominal font size
LineHeight(size) == 10 * size

\* doc.addPage(): the cursor goes to the top margin of a new page
AddPage(c) == [y |-> MARGIN, page |-> c.page + 1]

\* doc.moveDown(n), n given in hundredths of a line
MoveDown(c, hundredths, size) ==
  [c EXCEPT !.y = @ + (hundredths * LineHeight(size)) \div 100]

\* the lines of one doc.text call: a line that is not the last is followed by a
\* page break when the next line would pass the bottom margin
RECURSIVE FlowLines(_, _, _)
FlowLines(c, n, lh) ==
  IF n = 0 THEN c
  ELSE IF n > 1 /\ c.y + lh + lh > pageBottom
    THEN FlowLines(AddPage(c), n - 1, lh)
    ELSE FlowLines([y |-> c.y + lh, page |-> c.page], n - 1, lh)

\* where doc.text starts: on a new page when the first line does not fit
TextStart(c, size) ==
  IF c.y > pageBottom \/ c.y + LineHeight(size) > pageBottom THEN AddPage(c) ELSE c

\* doc.fontSize(size).text(..., { width }) of n rendered lines
Text(c, n, size) == FlowLines(TextStart(c, size), n, LineHeight(size))

\* ensureSpace(needed)
ensureSpace(c, needed) ==
  IF c.y + needed > pageBottom THEN AddPage(c) ELSE c

\* mutant: an article breaks the page only when its title would not fit
ArticleBreak_Measured(index, c) ==
  index > 0 /\ c.y + LineHeight(22) > pageBottom

\* addArticle: if (index > 0) doc.addPage()
ArticleBreak(index, c) == index > 0

\* addArticle up to the block loop: title, byline, url, spacing
ArticleHead(c, index, tl, byline) ==
  LET c0 == IF ArticleBreak(index, c) THEN AddPage(c) ELSE c
      t0 == TextStart(c0, 22)
      c1 == Text(c0, tl, 22)
      c2 == IF byline THEN Text(MoveDown(c1, 25, 22), 1, 12) ELSE c1
      c3 == Text(MoveDown(c2, IF byline THEN 15 ELSE 30, IF byline THEN 12 ELSE 22),
                 1, 10)
  IN [first |-> t0.page, fromPage |-> c.page,
      room |-> c.y + LineHeight(22) <= pageBottom, c |-> MoveDown(c3, 75, 10)]

\* a block of type 'text'
TextBlock(c, n) == MoveDown(Text(c, n, 12), 60, 12)

\* a block of type 'heading'
HeadingBlock(c, n) == MoveDown(Text(MoveDown(c, 20, 12), n, 16), 40, 16)

\* JavaScript's a || b on numbers
OrElse(a, b) == IF a = 0 THEN b ELSE a

\* fractions <<numerator, denominator>>, denominators positive
FracLeq(f, g) == f[1] * g[2] <= g[1] * f[2]
FracEq(f, g) == f[1] * g[2] = g[1] * f[2]
FracMin(f, g) == IF FracLeq(f, g) THEN f ELSE g

\* mutant: the scale is not capped at the native size
imageScale_Upscaling(w, h, maxW, maxH) ==
  FracMin(<<maxW, 10 * w>>, <<maxH, 10 * h>>)

\* Math.min(maxW / img.width, maxH / img.height, 1)
imageScale(w, h, maxW, maxH) ==
  FracMin(FracMin(<<maxW, 10 * w>>, <<maxH, 10 * h>>), <<1, 1>>)

\* Math.max(0, pageBottom() - y - 10)
Available(yv) == Max(0, pageBottom - yv - 100)

\* mutant: the height left on the page alone bounds the image
MaxHeightAt_Uncapped(yv) == OrElse(Available(yv), MAX_IMG_HEIGHT)

\* Math.min(MAX_IMG_HEIGHT, available || MAX_IMG_HEIGHT)
MaxHeightAt(yv) == Min(MAX_IMG_HEIGHT, OrElse(Available(yv), MAX_IMG_HEIGHT))

\* img.height * scale, a length (exact for ImageSizes)
Scaled(px, f) == (10 * px * f[1]) \div f[2]

\* mutant: the start position is read before ensureSpace
imageStart_Stale(before, after) == OrElse(before.y, MARGIN)

\* const startY = doc.y || doc.page.margins.top, after ensureSpace
imageStart(before, after) == OrElse(after.y, MARGIN)

\* an image block whose bytes were fetched and opened
ImageBlock(c, w, h) ==
  LET maxW == pageWidth
      scaleNow == imageScale(w, h, maxW, MaxHeightAt(c.y))
      estH == Scaled(h, scaleNow)
      c1 == ensureSpace(c, estH + 80)
      startY == imageStart(c, c1)
      available == Available(startY)
      scale == imageScale(w, h, maxW, MaxHeightAt(startY))
      drawH == Scaled(h, scale)
  IN [c |-> MoveDown([c1 EXCEPT !.y = startY + drawH], 60, 12),
      rec |-> [t |-> "drawn", v |-> <<w, h>>, scale |-> scale, startY |-> startY,
               drawW |-> Scaled(w, scale), drawH |-> drawH, estH |-> estH,
               cursor |-> c1, before |-> c, available |-> available]]

\* mutant: no catch around the image block, the error leaves addArticle
imageCatch_Rethrow == "failed"

\* catch (err) { console.warn(...) }: the block loop goes on
imageCatch == "blocks"

\* what the catch of an image block leaves behind
ImageSkipped(c, why) ==
  [t |-> "skipped", v |-> <<>>, scale |-> <<0, 1>>, startY |-> 0, drawW |-> 0,
   drawH |-> 0, estH |-> 0, cursor |-> c, before |-> c, available |-> 0,
   why |-> why]

MaxQ == 3

\* a section whose second question is the empty string
SectionBlank ==
  [title |-> <<>>, questions |-> <<<<"q", 1>>, <<>>>>, answers |-> <<<<"a", 1>>, <<"a", 2>>>>]

\* the comprehension arguments buildPdf is called with
Comprehensions ==
  {Null, Str(<<>>)}
    \cup {Str(<<Section(nq, na)>>) : nq \in 0..MaxQ, na \in 0..MaxQ}
    \cup {Str(<<Section(3, 2), Section(0, 2)>>), Str(<<SectionBlank, Section(1, 1)>>)}

\* one rendered line of the trailing sections
Entry(k, sidx, i, label, text) ==
  [k |-> k, s |-> sidx, i |-> i, label |-> label, text |-> text, page |-> 0]

\* The rendering operators below take the state st = [c, log] through a
\* singleton set: TLC then evaluates an argument once, however deep the
\* operators are nested.

\* doc.text(line, { width }) of one rendered line, logged with its page
LineAt(x, entry, size) ==
  [c |-> Text(x.c, 1, size),
   log |-> Append(x.log, [entry EXCEPT !.page = Text(x.c, 1, size).page])]

Line(st, entry, size) == CHOOSE r \in {LineAt(x, entry, size) : x \in {st}} : TRUE

\* doc.moveDown(n) between rendered lines
Down(st, hundredths, size) ==
  CHOOSE r \in {[c |-> MoveDown(x.c, hundredths, size), log |-> x.log] : x \in {st}} :
    TRUE

\* doc.addPage() before a trailing section
Break(st) ==
  CHOOSE r \in {[c |-> AddPage(x.c),
                 log |-> Append(x.log, Entry("break", 0, 0, "", <<>>))] : x \in {st}} :
    TRUE

\* section.title || 'Untitled'
TitleOf(sec) == IF sec.title = <<>> THEN <<"Untitled">> ELSE sec.title

\* (section.questions || []).forEach((q, idx) => text(`${idx + 1}. ${q}`))
RECURSIVE Questions(_, _, _, _)
Questions(st, sec, sidx, idx) ==
  IF idx >= Len(sec.questions) THEN st
  ELSE Questions(
         Down(Line(st, Entry("q", sidx, idx + 1, "num", sec.questions[idx + 1]), 12),
              40, 12),
         sec, sidx, idx + 1)

\* the size of the font in use after n lines of size 12 under a title of size 14
SizeAfter(n) == IF n > 0 THEN 12 ELSE 14

\* the title of a section and the space under it
SectionTitle(st, sec, sidx) ==
  Down(Line(st, Entry("title", sidx, 0, "", TitleOf(sec)), 14), 30, 14)

\* one section of the Comprehension part
ComprehensionSection(st, sec, sidx) ==
  Down(Questions(SectionTitle(st, sec, sidx), sec, sidx, 0),
       60, SizeAfter(Len(sec.questions)))

\* mutant: every answer is rendered
answerCount_All(sec) == Len(sec.answers)

\* Math.min(answers.length, questions.length || answers.length)
answerCount(sec) ==
  Min(Len(sec.answers), OrElse(Len(sec.questions), Len(sec.answers)))

\* questions[i] ? `Q${i + 1}` : `${i + 1}`
answerLabel(sec, i) ==
  IF i < Len(sec.questions) /\ sec.questions[i + 1] # <<>> THEN "Q" ELSE "num"

\* for (let i = 0; i < count; i++) text(`${label}: ${answers[i]}`)
RECURSIVE Answers(_, _, _, _, _)
Answers(st, sec, sidx, i, count) ==
  IF i >= count THEN st
  ELSE Answers(
         Down(Line(st, Entry("a", sidx, i + 1, answerLabel(sec, i), sec.answers[i + 1]),
                   12),
              30, 12),
         sec, sidx, i + 1, count)

\* one section of the Answers part
AnswersSection(st, sec, sidx) ==
  Down(Answers(SectionTitle(st, sec, sidx), sec, sidx, 0, answerCount(sec)),
       60, SizeAfter(answerCount(sec)))

\* mutant: the Answers part follows on the same page
answersBreak_None(st) == st

\* doc.addPage() before the Answers part
answersBreak(st) == Break(st)

\* a forced page break, then a heading of size 20 and the space under it
SectionHead(st, name) ==
  Down(Line(st, Entry("head", 0, 0, "", <<name>>), 20), 60, 20)

\* the chunks the document has pushed: the header, one per finished page, and
\* at doc.end() the last page and the trailer
Pushed == 1 + (cur.page - 1) + (IF docEnded THEN 2 ELSE 0)

PdfInit ==
  /\ nArts \in 1..MaxArticles
  /\ compr = Null
  /\ ppc = "start"
  /\ ai = 0
  /\ nBlocks = 0
  /\ bi = 0
  /\ cur = [y |-> MARGIN, page |-> 1]
  /\ artPages = <<>>
  /\ img = Null
  /\ imgSkips = 0
  /\ si = 0
  /\ qlog = <<>>
  /\ buffers = <<>>
  /\ docEnded = FALSE
  /\ endListener = FALSE
  /\ endFired = FALSE
  /\ result = Null

\* the article loop is between two blocks of article ai
InBlocks == ppc = "blocks" /\ bi < nBlocks

\* all blocks of article ai are handled
ArticleDone == ppc = "blocks" /\ bi = nBlocks

Wrote(c) == [artPages EXCEPT ![Len(artPages)].last = c.page]

\* addArticle(articles[i], i) up to its block loop
StartArticle ==
  /\ \/ ppc = "start" /\ ai' = 0
     \/ ArticleDone /\ ai + 1 < nArts /\ ai' = ai + 1
  /\ \E tl \in TitleLines, byline \in BOOLEAN, n \in 0..MaxBlocks :
       LET head == ArticleHead(cur, ai', tl, byline) IN
       /\ cur' = head.c
       /\ artPages' = Append(artPages, [first |-> head.first, last |-> head.c.page,
                                        fromPage |-> head.fromPage,
                                        room |-> head.room])
       /\ nBlocks' = n
  /\ bi' = 0
  /\ ppc' = "blocks"
  /\ img' = Null
  /\ UNCHANGED <<nArts, compr, si, imgSkips, qlog, buffers, docEnded, endListener, endFired,
                 result>>
  /\ UNCHANGED exceptPdf

\* block.type === 'text'
EmitText ==
  /\ InBlocks
  /\ \E n \in TextLines :
       /\ cur' = TextBlock(cur, n)
       /\ artPages' = Wrote(cur')
  /\ bi' = bi + 1
  /\ img' = Null
  /\ UNCHANGED <<nArts, compr, ppc, ai, nBlocks, si, imgSkips, qlog, buffers, docEnded,
                 endListener, endFired, result>>
  /\ UNCHANGED exceptPdf

\* block.type === 'heading'
EmitHeading ==
  /\ InBlocks
  /\ \E n \in HeadingLines :
       /\ cur' = HeadingBlock(cur, n)
       /\ artPages' = Wrote(cur')
  /\ bi' = bi + 1
  /\ img' = Null
  /\ UNCHANGED <<nArts, compr, ppc, ai, nBlocks, si, imgSkips, qlog, buffers, docEnded,
                 endListener, endFired, result>>
  /\ UNCHANGED exceptPdf

\* block.type === 'image': await fetchImageBuffer(block.src)
ImageFetch ==
  /\ InBlocks
  /\ ppc' = "image"
  /\ img' = Null
  /\ UNCHANGED <<nArts, compr, ai, nBlocks, bi, cur, artPages, si, imgSkips, qlog, buffers,
                 docEnded, endListener, endFired, result>>
  /\ UNCHANGED exceptPdf

\* the image block after the await: drawn, or skipped by the catch
ImageSettle ==
  /\ ppc = "image"
  /\ \/ \E why \in {"fetch", "open"} :
          /\ img' = ImageSkipped(cur, why)
          /\ ppc' = imageCatch
          /\ imgSkips' = imgSkips + 1
          /\ UNCHANGED <<cur, artPages>>
     \/ \E size \in ImageSizes :
          LET r == ImageBlock(cur, size[1], size[2]) IN
          /\ cur' = r.c
          /\ img' = r.rec
          /\ artPages' = Wrote(r.c)
          /\ ppc' = "blocks"
          /\ UNCHANGED imgSkips
  /\ bi' = bi + 1
  /\ UNCHANGED <<nArts, compr, ai, nBlocks, si, qlog, buffers, docEnded, endListener,
                 endFired, result>>
  /\ UNCHANGED exceptPdf

\* mutant: buildPdf returns Buffer.concat(buffers) right after doc.end()
awaitEnd_ReturnNow ==
  /\ endListener' = FALSE
  /\ result' = Str(buffers)
  /\ ppc' = "resolved"

\* return await new Promise((resolve) => doc.on('end', ...))
awaitEnd ==
  /\ endListener' = TRUE
  /\ result' = Null
  /\ ppc' = "ended"

\* the article loop has returned
ArticlesDone == ArticleDone /\ ai + 1 = nArts

\* the trailing sections are between two sections of their forEach
InSections(pos) == ppc = pos /\ si <= Len(compr.v)

\* a forEach of the trailing sections has returned
SectionsDone(pos) == ppc = pos /\ si > Len(compr.v)

Rendering == [c |-> cur, log |-> qlog]

\* after the article loop: if (comprehension && comprehension.length), the
\* forced page break and the heading 'Comprehension'.  The comprehension
\* argument is first read here.
StartComprehension ==
  /\ ArticlesDone
  /\ \E comp \in Comprehensions :
       /\ compr' = comp
       /\ IF comp # Null /\ Len(comp.v) # 0
            THEN LET st == SectionHead(Break(Rendering), "Comprehension") IN
                 /\ cur' = st.c
                 /\ qlog' = st.log
                 /\ ppc' = "questions"
                 /\ si' = 1
            ELSE /\ ppc' = "end"
                 /\ UNCHANGED <<cur, qlog, si>>
  /\ img' = Null
  /\ UNCHANGED <<nArts, imgSkips, ai, nBlocks, bi, artPages, buffers, docEnded, endListener,
                 endFired, result>>
  /\ UNCHANGED exceptPdf

\* one iteration of the first comprehension.forEach
QuestionsStep ==
  /\ InSections("questions")
  /\ LET st == ComprehensionSection(Rendering, compr.v[si], si) IN
     /\ cur' = st.c
     /\ qlog' = st.log
  /\ si' = si + 1
  /\ UNCHANGED <<nArts, imgSkips, compr, ppc, ai, nBlocks, bi, artPages, img, buffers,
                 docEnded, endListener, endFired, result>>
  /\ UNCHANGED exceptPdf

\* between the two forEach: the forced page break and the heading 'Answers'
StartAnswers ==
  /\ SectionsDone("questions")
  /\ LET st == SectionHead(answersBreak(Rendering), "Answers") IN
     /\ cur' = st.c
     /\ qlog' = st.log
  /\ ppc' = "answers"
  /\ si' = 1
  /\ UNCHANGED <<nArts, imgSkips, compr, ai, nBlocks, bi, artPages, img, buffers, docEnded,
                 endListener, endFired, result>>
  /\ UNCHANGED exceptPdf

\* one iteration of the second comprehension.forEach
AnswersStep ==
  /\ InSections("answers")
  /\ LET st == AnswersSection(Rendering, compr.v[si], si) IN
     /\ cur' = st.c
     /\ qlog' = st.log
  /\ si' = si + 1
  /\ UNCHANGED <<nArts, imgSkips, compr, ppc, ai, nBlocks, bi, artPages, img, buffers,
                 docEnded, endListener, endFired, result>>
  /\ UNCHANGED exceptPdf

\* doc.end(), and the promise that waits for 'end'
Finish ==
  /\ ppc = "end" \/ SectionsDone("answers")
  /\ docEnded' = TRUE
  /\ awaitEnd
  /\ UNCHANGED <<nArts, compr, ai, nBlocks, bi, cur, artPages, img, si, imgSkips, qlog,
                 buffers, endFired>>
  /\ UNCHANGED exceptPdf

\* doc.on('data', (chunk) => buffers.push(chunk)): the stream hands over the
\* next chunk it holds
DeliverData ==
  /\ ppc # "idle"
  /\ Len(buffers) < Pushed
  /\ buffers' = Append(buffers, Len(buffers) + 1)
  /\ UNCHANGED <<nArts, compr, ppc, ai, nBlocks, bi, cur, artPages, img, si, imgSkips, qlog,
                 docEnded, endListener, endFired, result>>
  /\ UNCHANGED exceptPdf

\* the stream emits 'end' once it is ended and drained; the listener resolves
\* the promise with Buffer.concat(buffers)
FireEnd ==
  /\ docEnded /\ ~endFired
  /\ Len(buffers) = Pushed
  /\ endFired' = TRUE
  /\ IF endListener
       THEN result' = Str(buffers) /\ ppc' = "resolved"
       ELSE UNCHANGED <<result, ppc>>
  /\ UNCHANGED <<nArts, compr, ai, nBlocks, bi, cur, artPages, img, si, imgSkips, qlog, buffers,
                 docEnded, endListener>>
  /\ UNCHANGED exceptPdf

PdfNext ==
  \/ StartArticle
  \/ EmitText
  \/ EmitHeading
  \/ ImageFetch
  \/ ImageSettle
  \/ StartComprehension
  \/ QuestionsStep
  \/ StartAnswers
  \/ AnswersStep
  \/ Finish
  \/ DeliverData
  \/ FireEnd

\* no request is modelled under SpecPdf: buildPdf is called on its own
SrvIdle ==
  /\ route = "compile"
  /\ body = [isArray |-> FALSE, urls |-> <<>>, email |-> NotStr,
             includeQuiz |-> "absent"]
  /\ env = [apiKey |-> FALSE, kindle |-> FALSE]
  /\ spc = "idle"
  /\ cleaned = <<>>
  /\ ci = 0
  /\ fst = "none"
  /\ finalUrl = <<>>
  /\ articles = <<>>
  /\ skipped = <<>>
  /\ fetchLog = <<>>
  /\ outcomes = <<>>
  /\ comprehension = Null
  /\ bpCalls = <<>>
  /\ pdfBuffer = Null
  /\ mailer = Null
  /\ mails = <<>>
  /\ response = Null

InitPdf == SrvIdle /\ PdfInit /\ ExtIdle /\ TwinIdle /\ PageIdle

SpecPdf == InitPdf /\ [][PdfNext]_vars

\* the synchronous tail of buildPdf runs to its end, and the event loop hands
\* over every chunk and the 'end' event of an ended stream
FairSpecPdf ==
  /\ SpecPdf
  /\ WF_vars(StartComprehension)
  /\ WF_vars(QuestionsStep)
  /\ WF_vars(StartAnswers)
  /\ WF_vars(AnswersStep)
  /\ WF_vars(Finish)
  /\ WF_vars(DeliverData)
  /\ WF_vars(FireEnd)

InitExtract == SrvIdle /\ PdfIdle /\ ExtInit /\ TwinIdle /\ PageIdle

SpecExtract == InitExtract /\ [][Extract]_vars

\* ------------------------------------------------------- two calls of buildPdf

\* mutant: the document is created once, outside buildPdf, and every call
\* writes to it
DocOf_Shared(run) == 1

\* const doc = new PDFDocument(...); const buffers = []: each call has its own
DocOf(run) == run

\* a document after new PDFDocument({ margin: 50, autoFirstPage: true })
NewDoc == [c |-> [y |-> MARGIN, page |-> 1], images |-> 0]

\* the length of the output so far, in units of one chunk: the header, a
\* chunk per page, the trailer, and the bytes of every image drawn
OutputLength(d) == 1 + d.c.page + 1 + d.images

\* what a step of a call did to its document
Seen(before, after) ==
  [break |-> after.c.page - before.c.page,
   y |-> after.c.y,
   pages |-> after.c.page,
   length |-> OutputLength(after)]

\* the document the first call writes to, and the one the second call writes
\* to once the first has left its document as a1
Doc1 == docs[DocOf(1)]
Doc2(a1) == [docs EXCEPT ![DocOf(1)] = a1][DocOf(2)]

\* both calls have taken the same step, the first before the second, and
\* left their documents as a1 and a2
Both(a1, a2) ==
  /\ docs' = [[docs EXCEPT ![DocOf(1)] = a1] EXCEPT ![DocOf(2)] = a2]
  /\ seen' = <<Seen(Doc1, a1), Seen(Doc2(a1), a2)>>

TwinInit ==
  /\ tpc = "start"
  /\ tArts \in 1..MaxArticles
  /\ tai = 0
  /\ tn = 0
  /\ tbi = 0
  /\ docs = <<NewDoc, NewDoc>>
  /\ seen = <<Seen(NewDoc, NewDoc), Seen(NewDoc, NewDoc)>>
  /\ sameNet = TRUE

TwinInBlocks == tpc = "blocks" /\ tbi < tn

TwinArticleDone == tpc = "blocks" /\ tbi = tn

\* addArticle(articles[i], i) up to its block loop, in both calls
TwinArticle ==
  /\ \/ tpc = "start" /\ tai' = 0
     \/ TwinArticleDone /\ tai + 1 < tArts /\ tai' = tai + 1
  /\ \E tl \in TitleLines, byline \in BOOLEAN, n \in 0..MaxBlocks :
       LET Draw(d) == [d EXCEPT !.c = ArticleHead(d.c, tai', tl, byline).c]
           a1 == Draw(Doc1)
       IN /\ Both(a1, Draw(Doc2(a1)))
          /\ tn' = n
  /\ tbi' = 0
  /\ tpc' = "blocks"
  /\ UNCHANGED <<tArts, sameNet>>
  /\ UNCHANGED exceptTwin

\* block.type === 'text', in both calls
TwinText ==
  /\ TwinInBlocks
  /\ \E n \in TextLines :
       LET Draw(d) == [d EXCEPT !.c = TextBlock(d.c, n)]
           a1 == Draw(Doc1)
       IN Both(a1, Draw(Doc2(a1)))
  /\ tbi' = tbi + 1
  /\ UNCHANGED <<tpc, tArts, tai, tn, sameNet>>
  /\ UNCHANGED exceptTwin

\* block.type === 'heading', in both calls
TwinHeading ==
  /\ TwinInBlocks
  /\ \E n \in HeadingLines :
       LET Draw(d) == [d EXCEPT !.c = HeadingBlock(d.c, n)]
           a1 == Draw(Doc1)
       IN Both(a1, Draw(Doc2(a1)))
  /\ tbi' = tbi + 1
  /\ UNCHANGED <<tpc, tArts, tai, tn, sameNet>>
  /\ UNCHANGED exceptTwin

\* how fetchImageBuffer(block.src) can end in one call
FetchOutcomes == {"ok", "failed"}

\* the image block of one call: drawn, or skipped by the catch
TwinDraw(d, outcome, size) ==
  IF outcome = "ok"
    THEN [c |-> ImageBlock(d.c, size[1], size[2]).c, images |-> d.images + 1]
    ELSE d

\* block.type === 'image', in both calls: the block and the image behind its
\* src are the same, each call makes its own fetch
TwinImage ==
  /\ TwinInBlocks
  /\ \E size \in ImageSizes, o1 \in FetchOutcomes, o2 \in FetchOutcomes :
       LET a1 == TwinDraw(Doc1, o1, size)
       IN /\ Both(a1, TwinDraw(Doc2(a1), o2, size))
          /\ sameNet' = (sameNet /\ o1 = o2)
  /\ tbi' = tbi + 1
  /\ UNCHANGED <<tpc, tArts, tai, tn>>
  /\ UNCHANGED exceptTwin

\* the trailing sections of one call, Comprehension then Answers
TwinQuiz(d, comp) ==
  IF comp # Null /\ Len(comp.v) # 0
    THEN LET st0 == SectionHead(Break([c |-> d.c, log |-> <<>>]), "Comprehension")
             st1 == ComprehensionSection(st0, comp.v[1], 1)
             st2 == SectionHead(answersBreak(st1), "Answers")
             st3 == AnswersSection(st2, comp.v[1], 1)
         IN [d EXCEPT !.c = st3.c]
    ELSE d

\* after the article loop, in both calls: the trailing sections of the same
\* comprehension argument
TwinSections ==
  /\ TwinArticleDone /\ tai + 1 = tArts
  /\ \E quiz \in {Null} \cup {Str(q) : q \in QuizPayloads} :
       LET a1 == TwinQuiz(Doc1, quiz) IN Both(a1, TwinQuiz(Doc2(a1), quiz))
  /\ tpc' = "end"
  /\ UNCHANGED <<tArts, tai, tn, tbi, sameNet>>
  /\ UNCHANGED exceptTwin

\* doc.end() and the returned buffer, in both calls
TwinEnd ==
  /\ tpc = "end"
  /\ Both(Doc1, Doc2(Doc1))
  /\ tpc' = "returned"
  /\ UNCHANGED <<tArts, tai, tn, tbi, sameNet>>
  /\ UNCHANGED exceptTwin

TwinNext ==
  \/ TwinArticle
  \/ TwinText
  \/ TwinHeading
  \/ TwinImage
  \/ TwinSections
  \/ TwinEnd

InitTwin == SrvIdle /\ PdfIdle /\ ExtIdle /\ TwinInit /\ PageIdle

SpecTwin == InitTwin /\ [][TwinNext]_vars

\* ------------------------------------------------------------------ the page

\* the requests one page may start
MaxRequests == 2

\* String.prototype.split(/\n|,/)
RECURSIVE Split(_)
Split(s) ==
  IF \E k \in 1..Len(s) : s[k] \in {"\n", ","}
    THEN LET k == CHOOSE k \in 1..Len(s) :
                    /\ s[k] \in {"\n", ","}
                    /\ \A j \in 1..(k - 1) : s[j] \notin {"\n", ","}
         IN <<SubSeq(s, 1, k - 1)>> \o Split(SubSeq(s, k + 1, Len(s)))
    ELSE <<s>>

\* urlsInput.value.split(/\n|,/).map((u) => u.trim()).filter(Boolean)
getUrls(value) ==
  LET parts == Split(value)
  IN FilterNonEmpty([k \in 1..Len(parts) |-> Trim(parts[k])])

\* what the user may have typed into the URL field
UrlTexts ==
  {<<>>, <<" ", "\n", ",">>,
   <<"a", " ", "c", "\n", " ", "b", " ", ",", ",", "d">>}

\* what the user may type into the address field of the modal
EmailTexts == {<<>>, <<" ">>, <<"u">>, <<"u", "@", "h">>}

\* the elements of list at the positions in keep, in order
RECURSIVE Pick(_, _)
Pick(list, keep) ==
  IF list = <<>> THEN <<>>
  ELSE LET rest == Pick(Tail(list), {k - 1 : k \in keep \ {1}})
       IN IF 1 \in keep THEN <<Head(list)>> \o rest ELSE rest

\* the skipped lists collectArticles can return on the URLs of a request that
\* succeeds: the server cleans the list again, every URL whose fetchArticle
\* threw is pushed in input order, and at least one article is left
SkippedLists(urls) ==
  LET sent == CleanUrls([isArray |-> TRUE, urls |-> [k \in 1..Len(urls) |-> Str(urls[k])]])
  IN {Pick(sent, keep) : keep \in (SUBSET (1..Len(sent))) \ {1..Len(sent)}}

\* the responses of /api/compile and /api/email to a request with these URLs,
\* as the page reads them: the status, the body of an error, and after a
\* success the skipped list, which /api/compile puts into a header
Responses(urls) ==
  {[ok |-> FALSE, err |-> e, skipped |-> <<>>, hdr |-> Null] :
     e \in {"json", "text", "none"}}
    \cup {[ok |-> TRUE, err |-> "none", skipped |-> k, hdr |-> SkippedHeader(k)] :
            k \in SkippedLists(urls)}

\* the URL field of the runs whose every request is required to settle
UrlTextsFair == {<<>>, <<"a", ",", " ", "b">>}

\* the page as loaded, with one of texts typed into the URL field
PageLoaded(texts) ==
  /\ urlsInput \in texts
  /\ emailInput = <<>>
  /\ disabled = FALSE
  /\ menuHidden = TRUE
  /\ modalHidden = TRUE
  /\ downloadHidden = TRUE
  /\ statusEl = ""
  /\ reqs = <<>>

PageInit == PageLoaded(UrlTexts)

\* toggleLoading(isLoading): the submit button, the dropdown and the menu items
toggleLoading(isLoading) == disabled' = isLoading

\* the request of a handler that has called fetch
Started(kind, alt) ==
  reqs' = Append(reqs, [kind |-> kind, alt |-> alt, urls |-> getUrls(urlsInput),
                        pc |-> "fetch", res |-> Null, parsed |-> <<>>,
                        off |-> FALSE])

\* the click handler of document: a click outside the menu and the dropdown
closeMenu == menuHidden' = TRUE

\* form 'submit': the click on the submit button reaches document first
Submit ==
  /\ ~disabled
  /\ closeMenu
  /\ IF getUrls(urlsInput) = <<>>
       THEN /\ statusEl' = "Add at least one URL."
            /\ UNCHANGED <<disabled, downloadHidden, reqs>>
       ELSE /\ Len(reqs) < MaxRequests
            /\ statusEl' = "Fetching articles"
            /\ toggleLoading(TRUE)
            /\ downloadHidden' = TRUE
            /\ Started("compile", FALSE)
  /\ UNCHANGED <<urlsInput, emailInput, modalHidden>>
  /\ UNCHANGED exceptPage

\* sendEmail(destinationEmail), up to its fetch
sendEmail(destinationEmail) ==
  LET isAlternate == destinationEmail # <<>> IN
  IF getUrls(urlsInput) = <<>>
    THEN /\ statusEl' = "Add at least one URL."
         /\ UNCHANGED <<disabled, menuHidden, modalHidden, downloadHidden, reqs>>
    ELSE IF isAlternate /\ ~Includes(destinationEmail, <<"@">>)
    THEN /\ statusEl' = "Enter a valid email address."
         /\ UNCHANGED <<disabled, menuHidden, modalHidden, downloadHidden, reqs>>
    ELSE /\ Len(reqs) < MaxRequests
         /\ menuHidden' = TRUE
         /\ modalHidden' = TRUE
         /\ statusEl' = (IF isAlternate THEN "Building PDF and emailing your address"
                                        ELSE "Building PDF and emailing to Kindle")
         /\ toggleLoading(TRUE)
         /\ downloadHidden' = TRUE
         /\ Started("email", isAlternate)

\* emailDropdown 'click': toggleMenu()
DropdownClick ==
  /\ ~disabled
  /\ menuHidden' = ~menuHidden
  /\ UNCHANGED <<urlsInput, emailInput, disabled, modalHidden, downloadHidden,
                 statusEl, reqs>>
  /\ UNCHANGED exceptPage

\* menu item 'click' with action default-send
DefaultSend ==
  /\ ~disabled /\ ~menuHidden
  /\ sendEmail(<<>>)
  /\ UNCHANGED <<urlsInput, emailInput>>
  /\ UNCHANGED exceptPage

\* menu item 'click' with action alternate-send: openModal()
AlternateSend ==
  /\ ~disabled /\ ~menuHidden
  /\ modalHidden' = FALSE
  /\ emailInput' = <<>>
  /\ UNCHANGED <<urlsInput, disabled, menuHidden, downloadHidden, statusEl, reqs>>
  /\ UNCHANGED exceptPage

\* the user types into the address field of the open modal
TypeEmail ==
  /\ ~modalHidden
  /\ emailInput' \in EmailTexts \ {emailInput}
  /\ UNCHANGED <<urlsInput, disabled, menuHidden, modalHidden, downloadHidden,
                 statusEl, reqs>>
  /\ UNCHANGED exceptPage

\* modalClose or modalCancel 'click': closeModal()
ModalClose ==
  /\ ~modalHidden
  /\ modalHidden' = TRUE
  /\ closeMenu
  /\ UNCHANGED <<urlsInput, emailInput, disabled, downloadHidden, statusEl, reqs>>
  /\ UNCHANGED exceptPage

\* modalSend 'click': sendEmail((emailInput.value || '').trim())
ModalSend ==
  /\ ~modalHidden
  /\ sendEmail(Trim(emailInput))
  /\ UNCHANGED <<urlsInput, emailInput>>
  /\ UNCHANGED exceptPage

\* document 'keydown' with key Escape: closeMenu(); closeModal()
Escape ==
  /\ ~menuHidden \/ ~modalHidden
  /\ closeMenu
  /\ modalHidden' = TRUE
  /\ UNCHANGED <<urlsInput, emailInput, disabled, downloadHidden, statusEl, reqs>>
  /\ UNCHANGED exceptPage

\* request k has not reached the end of its handler
Pending(k) == k \in 1..Len(reqs) /\ reqs[k].pc # "done"

\* mutant: toggleLoading(false) is the last statement of the try block
Finally_TryOnly(path) == path = "ok"

\* finally { toggleLoading(false); }: on every way out of the try block
Finally(path) == TRUE

\* the handler of request k leaves its try block, having read the skipped
\* URLs skips from the response
LeaveWith(k, path, skips) ==
  /\ reqs' = [reqs EXCEPT ![k].pc = "done", ![k].off = Finally(path),
                          ![k].parsed = skips]
  /\ IF Finally(path) THEN toggleLoading(FALSE) ELSE UNCHANGED disabled

\* the handler of request k leaves its try block
Leave(k, path) == LeaveWith(k, path, <<>>)

\* await fetch(...) of request k settles
FetchSettle(k) ==
  /\ Pending(k) /\ reqs[k].pc = "fetch"
  /\ \/ /\ statusEl' = "Failed to fetch"       \* rejected: catch, finally
        /\ Leave(k, "thrown")
     \/ \E r \in Responses(reqs[k].urls) :
          /\ reqs' = [reqs EXCEPT ![k].res = r,
                                  ![k].pc = IF r.ok THEN "body" ELSE "text"]
          /\ UNCHANGED <<disabled, statusEl>>
  /\ UNCHANGED <<urlsInput, emailInput, menuHidden, modalHidden, downloadHidden>>
  /\ UNCHANGED exceptPage

\* logAndThrow: the message of the error thrown for a response that is not OK
ErrorMessage(r, read, fallbackMessage) ==
  IF read /\ r.err = "json" THEN "data.error" ELSE fallbackMessage

\* await logAndThrow(response, ...) of request k: response.text() settles,
\* the error is thrown, caught and shown
ReadText(k) ==
  /\ Pending(k) /\ reqs[k].pc = "text"
  /\ \E read \in BOOLEAN :
       statusEl' = ErrorMessage(reqs[k].res, read,
                                IF reqs[k].kind = "compile" THEN "Request failed."
                                                            ELSE "Email failed.")
  /\ Leave(k, "notOk")
  /\ UNCHANGED <<urlsInput, emailInput, menuHidden, modalHidden, downloadHidden>>
  /\ UNCHANGED exceptPage

\* the status shown after a success
Done(kind, alt, skips) ==
  IF kind = "compile"
    THEN IF skips # <<>> THEN "Ready. Some links failed" ELSE "Ready."
    ELSE IF skips # <<>>
           THEN (IF alt THEN "Sent to your email address, but some links failed"
                        ELSE "Sent to Kindle address, but some links failed")
           ELSE (IF alt THEN "Sent to your email address." ELSE "Sent to Kindle address.")

\* String.prototype.split(',')
RECURSIVE SplitComma(_)
SplitComma(s) ==
  IF \E k \in 1..Len(s) : s[k] = ","
    THEN LET k == CHOOSE k \in 1..Len(s) :
                    s[k] = "," /\ \A j \in 1..(k - 1) : s[j] # ","
         IN <<SubSeq(s, 1, k - 1)>> \o SplitComma(SubSeq(s, k + 1, Len(s)))
    ELSE <<s>>

\* response.headers.get('x-clippings-skipped') || ''
SkippedHeaderOf(r) == IF r.hdr = Null THEN <<>> ELSE r.hdr.v

\* mutant: the header is taken for one URL
ParseSkipped_Whole(skippedHeader) == FilterNonEmpty(<<Trim(skippedHeader)>>)

\* skippedHeader.split(',').map((v) => v.trim()).filter(Boolean), which the
\* handler computes if (skippedHeader.trim())
ParseSkipped(skippedHeader) ==
  LET parts == SplitComma(skippedHeader)
  IN FilterNonEmpty([k \in 1..Len(parts) |-> Trim(parts[k])])

\* await response.blob() or response.json() of request k settles
ReadBody(k) ==
  /\ Pending(k) /\ reqs[k].pc = "body"
  /\ LET q == reqs[k] IN
     IF q.kind = "compile"
       THEN \/ /\ downloadHidden' = FALSE
               /\ statusEl' = Done("compile", FALSE,
                                   ParseSkipped(SkippedHeaderOf(q.res)))
               /\ LeaveWith(k, "ok", ParseSkipped(SkippedHeaderOf(q.res)))
            \/ /\ statusEl' = "Something went wrong."  \* blob() rejected
               /\ Leave(k, "thrown")
               /\ UNCHANGED downloadHidden
       ELSE /\ \E parsed \in BOOLEAN :               \* json().catch(() => ({}))
                 statusEl' = Done("email", q.alt,
                                  IF parsed THEN q.res.skipped ELSE <<>>)
            /\ Leave(k, "ok")
            /\ UNCHANGED downloadHidden
  /\ UNCHANGED <<urlsInput, emailInput, menuHidden, modalHidden>>
  /\ UNCHANGED exceptPage

PageNext ==
  \/ Submit
  \/ DropdownClick
  \/ DefaultSend
  \/ AlternateSend
  \/ TypeEmail
  \/ ModalClose
  \/ ModalSend
  \/ Escape
  \/ \E k \in 1..MaxRequests : FetchSettle(k)
  \/ \E k \in 1..MaxRequests : ReadText(k)
  \/ \E k \in 1..MaxRequests : ReadBody(k)

InitPage == SrvIdle /\ PdfIdle /\ ExtIdle /\ TwinIdle /\ PageInit

SpecPage == InitPage /\ [][PageNext]_vars

\* what the network does for request k, whichever of the three it waits for
Settle(k) == FetchSettle(k) \/ ReadText(k) \/ ReadBody(k)

InitPageFair == SrvIdle /\ PdfIdle /\ ExtIdle /\ TwinIdle /\ PageLoaded(UrlTextsFair)

\* every request settles, and so does the reading of every response
FairSpecPage ==
  /\ InitPageFair /\ [][PageNext]_vars
  /\ \A k \in 1..MaxRequests : WF_vars(Settle(k))

\* ------------------------------------------------------------------ claims

RECURSIVE IsSubseq(_, _)
IsSubseq(a, b) ==
  IF a = <<>> THEN TRUE
  ELSE IF b = <<>> THEN FALSE
  ELSE IF Head(a) = Head(b) THEN IsSubseq(Tail(a), Tail(b))
  ELSE IsSubseq(a, Tail(b))

ArticleUrls == [k \in 1..Len(articles) |-> articles[k].url]

\* collectArticles has returned
CollectReturned == ci > Len(cleaned)

Failed == {k \in 1..Len(outcomes) : ~outcomes[k].ok}

\* the input URLs whose fetchArticle threw, in input order
RECURSIVE FailedUrlsFrom(_)
FailedUrlsFrom(k) ==
  IF k > Len(outcomes) THEN <<>>
  ELSE (IF outcomes[k].ok THEN <<>> ELSE <<cleaned[k]>>) \o FailedUrlsFrom(k + 1)

\* C1: of N input URLs of which exactly K fail in fetchArticle, collectArticles
\* returns N-K articles and K skipped entries, each list a subsequence of the
\* input (same relative order).
C1_CollectPartition ==
  CollectReturned =>
    /\ Len(outcomes) = Len(cleaned)
    /\ Len(skipped) = Cardinality(Failed)
    /\ Len(articles) = Len(cleaned) - Cardinality(Failed)
    /\ IsSubseq(ArticleUrls, cleaned)
    /\ IsSubseq(skipped, cleaned)

C1_Witness ==
  /\ CollectReturned
  /\ Len(cleaned) = 3
  /\ cleaned[1] # cleaned[3]
  /\ Failed = {2}
  /\ Len(articles) = 2
  /\ Len(skipped) = 1

\* C2: a failure of fetchArticle for one URL never aborts the batch (every URL
\* of the input is attempted, one outcome per URL), and the entry appended to
\* skipped is the original input URL, also when the failure came while fetching
\* or parsing the substituted print-friendly URL.
C2_FailureIsolated ==
  /\ ci > 0 => Len(outcomes) = ci - 1
  /\ CollectReturned =>
       \A k \in 1..Len(cleaned) :
         \E j \in 1..Len(fetchLog) : fetchLog[j] = <<k, cleaned[k]>>
  /\ skipped = FailedUrlsFrom(1)

C2_Witness ==
  /\ CollectReturned
  /\ Len(cleaned) = 3
  /\ ~outcomes[1].ok /\ outcomes[1].stage = "print" /\ outcomes[1].from = PrintUrl
  /\ ~outcomes[2].ok /\ outcomes[2].stage = "parse" /\ outcomes[2].from = PrintUrl
  /\ outcomes[3].ok
  /\ skipped = <<cleaned[1], cleaned[2]>>
  /\ cleaned[1] # cleaned[2]

\* every URL of a non-empty cleaned list failed extraction
AllFailed ==
  /\ Len(cleaned) # 0
  /\ Len(outcomes) = Len(cleaned)
  /\ \A k \in 1..Len(outcomes) : ~outcomes[k].ok

\* C3: when the cleaned list is non-empty and every URL fails, /api/compile and
\* /api/email answer 502 and never with a document or a sent status (nothing
\* else can follow the collection), and buildPdf is never invoked with an empty
\* article list.
C3_TotalFailure ==
  /\ AllFailed =>
       /\ spc \in {"collect", "done"}
       /\ spc = "done" =>
            /\ response.status = 502
            /\ response.kind = "error"
       /\ bpCalls = <<>>
       /\ mails = <<>>
  /\ \A k \in 1..Len(bpCalls) : bpCalls[k].n > 0

C3_Witness ==
  /\ AllFailed
  /\ route = "email"
  /\ Len(cleaned) = 2
  /\ spc = "done"
  /\ response.status = 502


\* C11: extractBlocks runs with baseUrl equal to the URL whose HTML was parsed:
\* a relative image source of every article is resolved against the
\* substituted print URL when one was fetched, and else against the request
\* URL.
C11_BaseIsFinalUrl ==
  \A k \in 1..Len(articles) :
    /\ articles[k].base = articles[k].from
    /\ articles[k].imgSrc = resolveUrl(RelSrc, articles[k].from)

\* the input indices of the fetches made
FetchesOf(i) == SelectSeq(fetchLog, LAMBDA f : f[1] = i)

\* C12: a print-friendly alternate is fetched only after the first fetch of
\* the same input URL found one that differs from the request URL; after that
\* fetch no alternate is looked for again; so each input URL has at most two
\* HTML fetches, the first of the request URL and the second of another URL.
C12_OneSubstitution ==
  [][/\ fst' = "print" =>
          /\ fst = "fetch" /\ ci' = ci
          /\ Str(finalUrl') \in Printable(cleaned[ci])
          /\ finalUrl' # cleaned[ci]
     /\ fst = "print" =>
          /\ fetchLog' = Append(fetchLog, <<ci, finalUrl>>)
          /\ fst' = "parse" \/ ci' = ci + 1
     /\ \A i \in 1..Len(cleaned') :
          LET f == FetchesOf(i)' IN
          /\ Len(f) <= 2
          /\ Len(f) >= 1 => f[1][2] = cleaned'[i]
          /\ Len(f) = 2 => f[2][2] # cleaned'[i]]_vars

\* an input URL was fetched twice: itself, then its print-friendly alternate
C12_Witness ==
  /\ Len(fetchLog) >= 2
  /\ fetchLog[1] = <<1, cleaned[1]>>
  /\ fetchLog[2] = <<1, PrintUrl>>
  /\ Len(articles) = 1

Succeeded == response # Null /\ response.status = 200

\* C15 as amended: a successful /api/compile response carries the skipped
\* URLs, in order and joined by commas, in the X-Clippings-Skipped header when
\* at least one URL was skipped and has no such header when none was; a
\* successful /api/email response carries the list, empty or not, in its
\* skipped field; the document bytes are those of the articles alone.
C15_SkippedSidecarAmended ==
  Succeeded =>
    /\ response.kind = "pdf" =>
         /\ response.hdr = IF skipped = <<>> THEN Null ELSE Str(Join(skipped, <<",">>))
         /\ response.doc.v = ArticleUrls
    /\ response.kind = "sent" =>
         /\ response.skipped = skipped
         /\ mails[Len(mails)].doc.v = ArticleUrls
    /\ skipped = FailedUrlsFrom(1)

\* a compiled document came with a header that lists two skipped URLs
C15_Witness ==
  /\ Succeeded
  /\ response.kind = "pdf"
  /\ Len(skipped) = 2
  /\ skipped[1] # skipped[2]
  /\ response.hdr = Str(skipped[1] \o <<",">> \o skipped[2])

\* C15 as stated: every successful /api/compile response carries the list in
\* the X-Clippings-Skipped header, whether or not a URL was skipped.
C15_SkippedSidecarAsStated ==
  (Succeeded /\ response.kind = "pdf") =>
    response.hdr # Null /\ response.hdr.v = Join(skipped, <<",">>)

\* generateComprehension was called and has returned
QuizRan ==
  /\ IncludeQuiz(body)
  /\ articles # <<>>
  /\ spc \in {"build", "mail", "done"}

\* ... and returned null
QuizFailed == QuizRan /\ comprehension = Null

\* C16: generateComprehension ends without a response being sent and with the
\* handler going on to buildPdf, returning null when the key is missing;
\* after it returned null, buildPdf is called with null and every document
\* produced is that of all the articles without the quiz sections.
C16_QuizDegrades ==
  [][/\ spc = "quiz" =>
          /\ response' = Null
          /\ spc' = "build"
          /\ ~env.apiKey => comprehension' = Null
     /\ QuizFailed' =>
          /\ \A k \in 1..Len(bpCalls') :
               bpCalls'[k] = [n |-> Len(articles'), quiz |-> Null]
          /\ (Succeeded' /\ response'.kind = "pdf") =>
               response'.doc.v = ArticleUrls' /\ ~response'.doc.quiz
          /\ \A k \in 1..Len(mails') :
               mails'[k].doc.v = ArticleUrls' /\ ~mails'[k].doc.quiz]_vars

\* with a key set the quiz failed, and the document was still delivered
C16_Witness ==
  /\ QuizFailed
  /\ env.apiKey
  /\ Succeeded
  /\ response.kind = "pdf"
  /\ ~response.doc.quiz
  /\ Len(response.doc.v) = 2

\* the email the request supplies is there and is no address
InvalidEmail == RequestedEmail(body) # <<>> /\ ~isValidEmail(RequestedEmail(body))

\* C21: /api/email calls sendMail at most once; when it has, the URL list was
\* not empty and the email was valid or absent, collectArticles had returned
\* at least one article, buildPdf had been called once and had returned the
\* document that is attached, ensureMailer had returned a transporter and
\* the destination is a non-empty address; before all of that no mail is
\* sent; and a request refused for its URL list or its email fetches nothing.
C21_MailGuarded ==
  route = "email" =>
    /\ Len(mails) <= 1
    /\ spc \notin {"mail", "done"} => mails = <<>>
    /\ (pdfBuffer = Null \/ mailer = Null) => mails = <<>> /\ spc # "mail"
    /\ mails # <<>> =>
         /\ cleaned # <<>> /\ ~InvalidEmail
         /\ ci > Len(cleaned) /\ articles # <<>>
         /\ Len(bpCalls) = 1
         /\ pdfBuffer = PdfOf(articles, comprehension)
         /\ mails[1].doc = pdfBuffer
         /\ mails[1].from = mailer.v
         /\ mails[1].to # <<>>
         /\ mails[1].to = Destination(body, env)
    /\ (spc # "recv" /\ (CleanUrls(body) = <<>> \/ InvalidEmail)) =>
         /\ fetchLog = <<>> /\ articles = <<>> /\ bpCalls = <<>> /\ mails = <<>>
         /\ response = ErrorResponse(400)

\* a mail went to the default address although one URL had been skipped
C21_Witness ==
  /\ route = "email"
  /\ Len(mails) = 1
  /\ mails[1].to = <<"k">>
  /\ response = SentResponse
  /\ skipped # <<>>
  /\ Len(articles) = 2

\* ------------------------------------------------------ claims on the page

\* the requests whose fetch has not settled
InFlight == {k \in 1..Len(reqs) : reqs[k].pc = "fetch"}

\* C19: at most one request of the page is in flight, and the controls are
\* enabled only while no request is pending.
C19_OneInFlight ==
  /\ Cardinality(InFlight) <= 1
  /\ ~disabled => \A k \in 1..Len(reqs) : ~Pending(k)

\* the handler of compile request k has read the response of a success
Compiled(k) ==
  /\ k \in 1..Len(reqs)
  /\ reqs[k].kind = "compile" /\ reqs[k].pc = "done"
  /\ reqs[k].res # Null /\ reqs[k].res.ok
  /\ statusEl \in {"Ready.", "Ready. Some links failed"}

\* a URL as getUrls produces it: trimmed, non-empty, without comma or newline
PlainUrl(u) ==
  /\ u # <<>> /\ Trim(u) = u
  /\ \A j \in 1..Len(u) : u[j] \notin {",", "\n"}

\* C22: the URLs a request of the page carries are trimmed, non-empty and free
\* of commas and newlines, and the skipped list the submit handler parses
\* from the X-Clippings-Skipped header of a successful compile response is
\* the server's skipped list, element for element and in order.
C22_SkippedRoundTrip ==
  \A k \in 1..Len(reqs) :
    /\ \A j \in 1..Len(reqs[k].urls) : PlainUrl(reqs[k].urls[j])
    /\ (reqs[k].kind = "compile" /\ reqs[k].pc = "body") =>
         ParseSkipped(SkippedHeaderOf(reqs[k].res)) = reqs[k].res.skipped
    /\ (reqs[k].kind = "compile" /\ reqs[k].pc = "done" /\ reqs[k].parsed # <<>>) =>
         reqs[k].parsed = reqs[k].res.skipped

\* the page has read two skipped URLs, one with a space inside, from the
\* header of a compile response
C22_Witness ==
  /\ Compiled(1)
  /\ reqs[1].parsed = <<<<"a", " ", "c">>, <<"d">>>>
  /\ reqs[1].res.hdr = Str(<<"a", " ", "c", ",", "d">>)
  /\ statusEl = "Ready. Some links failed"

\* C23: the download link is visible only if the request started last was a
\* compile request whose handler has read the response of a success.
C23_DownloadVisible ==
  ~downloadHidden =>
    /\ reqs # <<>>
    /\ LET last == reqs[Len(reqs)]
       IN /\ last.kind = "compile" /\ last.pc = "done"
          /\ last.res # Null /\ last.res.ok

\* a handler started request k, or ended it
Starts(k) == Len(reqs) = k - 1 /\ Len(reqs') = k
Ends(k) == Pending(k) /\ ~Pending(k)'

\* a handler runs on an empty URL list, or sendEmail on an address without @
EarlyReturn ==
  \/ (Submit \/ DefaultSend \/ ModalSend) /\ getUrls(urlsInput) = <<>>
  \/ ModalSend /\ Trim(emailInput) # <<>> /\ ~Includes(Trim(emailInput), <<"@">>)

\* C20: a handler that starts a request sets the loading state, every request
\* started is eventually followed by toggleLoading(false) of its handler,
\* which is called when the handler ends after a success, a response that is
\* not OK or a thrown error alike; and a handler that returns early neither
\* changes the loading state nor starts a request.
C20_LoadingReleased ==
  /\ \A k \in 1..MaxRequests :
       Pending(k) ~> (k \in 1..Len(reqs) /\ reqs[k].pc = "done" /\ reqs[k].off)
  /\ [][/\ \A k \in 1..MaxRequests :
            /\ Starts(k) => disabled' /\ Pending(k)' /\ reqs'[k].pc = "fetch"
            /\ Ends(k) => reqs'[k].off /\ ~disabled'
       /\ EarlyReturn => disabled' = disabled /\ reqs' = reqs]_vars

\* a request whose fetch was rejected and one whose response was not OK have
\* ended with the controls enabled again, and a handler has returned early
\* since
C20_Witness ==
  /\ Len(reqs) = 2
  /\ \A k \in 1..2 : reqs[k].pc = "done" /\ reqs[k].off
  /\ reqs[1].res = Null
  /\ reqs[2].res # Null /\ ~reqs[2].res.ok
  /\ ~disabled
  /\ statusEl = "Enter a valid email address."

\* ------------------------------------------------- claims on extractBlocks

\* the text nodes of the content, with their paths
TextNodes == SelectSeq(Descendants(dom, <<>>), LAMBDA d : d.node.type = "text")

Worded(b) == b.type \in {"text", "heading"}

\* a text with no whitespace at its ends and none but single spaces inside
Normalized(t) ==
  \A k \in 1..Len(t) :
    /\ t[k] # "\n"
    /\ t[k] = " " => k \notin {1, Len(t)} /\ t[k + 1] # " "

\* every text node of the content is boilerplate or whitespace
AllNoise == \A k \in 1..Len(TextNodes) : isNoiseText(TextNodes[k].node.text)

\* the text and heading blocks are normalized, non-empty and no noise
CleanBlocks ==
  \A k \in 1..Len(blocks) :
    Worded(blocks[k]) =>
      /\ blocks[k].text # <<>>
      /\ Normalized(blocks[k].text)
      /\ ~isNoiseText(blocks[k].text)

\* C13 as amended: every heading or text block carries whitespace-normalized
\* text that is not empty and not noise; a fragment whose text nodes are all
\* boilerplate or whitespace yields no heading and no text block, so only the
\* blocks of its images, and the empty sequence when no image has a src.
C13_NoNoiseAmended ==
  epc = "done" =>
    /\ CleanBlocks
    /\ AllNoise =>
         /\ \A k \in 1..Len(blocks) : blocks[k].type = "image"
         /\ (\A d \in 1..Len(Descendants(dom, <<>>)) :
               Descendants(dom, <<>>)[d].node.src = <<>>) => blocks = <<>>

\* boilerplate in other case and spacing, and nothing else, gave no block
C13_Witness ==
  /\ epc = "done"
  /\ AllNoise
  /\ \E k \in 1..Len(TextNodes) : TextNodes[k].node.text = TextNoiseSpaced
  /\ \E k \in 1..Len(TextNodes) : TextNodes[k].node.text = TextBlank
  /\ blocks = <<>>

\* C13 as stated: a fragment whose text nodes are all boilerplate or
\* whitespace yields an empty block sequence.
C13_NoNoiseAsStated ==
  epc = "done" => CleanBlocks /\ (AllNoise => blocks = <<>>)

IsPrefix(p, q) == Len(p) <= Len(q) /\ SubSeq(q, 1, Len(p)) = p

\* p comes before q in depth-first document order
DocBefore(p, q) ==
  \/ IsPrefix(p, q) /\ p # q
  \/ \E k \in 1..Min(Len(p), Len(q)) :
       /\ SubSeq(p, 1, k - 1) = SubSeq(q, 1, k - 1)
       /\ p[k] < q[k]

RECURSIVE NodeAt(_, _)
NodeAt(node, path) ==
  IF path = <<>> THEN node ELSE NodeAt(node.kids[Head(path)], Tail(path))

\* the proper ancestors of the node at path with the given tags
Above(path, tags) ==
  {n \in 0..(Len(path) - 1) : NodeAt(dom, SubSeq(path, 1, n)).tag \in tags}

\* blocks j and k are the image and the caption of one figure
FigurePair(j, k) ==
  /\ blocks[j].type = "image" /\ blocks[k].type = "text"
  /\ \E n \in Above(blocks[j].at, {"FIGURE"}) :
       /\ n \in Above(blocks[k].at, {"FIGURE"})
       /\ SubSeq(blocks[j].at, 1, n) = SubSeq(blocks[k].at, 1, n)

\* each text node is in the text of at most one block
OnceEach ==
  \A t \in 1..Len(TextNodes) :
    Cardinality({k \in 1..Len(blocks) :
                   Worded(blocks[k]) /\ IsPrefix(blocks[k].at, TextNodes[t].path)}) <= 1

\* no block is made from a node inside a heading, paragraph, list item or
\* blockquote, and inside a figure only from its first image and first caption
NotInside ==
  \A k \in 1..Len(blocks) :
    /\ Above(blocks[k].at, Headings \cup {"P", "LI", "BLOCKQUOTE"}) = {}
    /\ \A n \in Above(blocks[k].at, {"FIGURE"}) :
         LET fig == SubSeq(blocks[k].at, 1, n)
             want == IF blocks[k].type = "image" THEN "IMG" ELSE "FIGCAPTION"
         IN /\ blocks[k].type \in {"image", "text"}
            /\ querySelector(NodeAt(dom, fig), fig, want).v.path = blocks[k].at

\* C14 as amended: blocks are emitted in depth-first document order of the
\* nodes they are made from, except that a figure emits its image before its
\* caption whatever their order inside it; the children of a heading,
\* paragraph, list item, blockquote or figure are never traversed, and each
\* text node contributes to at most one block.
C14_OrderAmended ==
  epc = "done" =>
    /\ OnceEach
    /\ NotInside
    /\ \A j, k \in 1..Len(blocks) :
         j < k => DocBefore(blocks[j].at, blocks[k].at) \/ FigurePair(j, k)

\* a paragraph with an inline element gave one block, followed by the block of
\* a later text node
C14_Witness ==
  /\ epc = "done"
  /\ dom.kids[1].tag = "P"
  /\ Len(dom.kids[1].kids) = 2
  /\ dom.kids[1].kids[2].tag = "B"
  /\ Len(blocks) = 2
  /\ blocks[1].at = <<1>> /\ blocks[2].at = <<2>>
  /\ blocks[1].text = <<"H", "i", " ", "H", "i">>

\* C14 as stated: the nodes the blocks are made from are in depth-first
\* document order.
C14_OrderAsStated ==
  epc = "done" =>
    /\ OnceEach
    /\ \A j, k \in 1..Len(blocks) : j < k => DocBefore(blocks[j].at, blocks[k].at)

\* ------------------------------------------------------- claims on buildPdf

\* the page of the last write of the article list
LastArticlePage == artPages[Len(artPages)].last

\* every article is added and every block of the last one is handled
AllEmitted == Len(artPages) = nArts /\ ai + 1 = nArts /\ bi = nBlocks

\* buildPdf has passed doc.end()
Ended == ppc \in {"ended", "resolved"}

\* C4: every article after the first begins on a page added for it, whether or
\* not the page before had room, and the first article begins on page 1 with no
\* break; so no article begins on a page that holds content of the one before.
C4_ArticlePageBreak ==
  \A k \in 1..Len(artPages) :
    IF k = 1
      THEN artPages[k].first = 1 /\ artPages[k].fromPage = 1
      ELSE /\ artPages[k].fromPage = artPages[k - 1].last
           /\ artPages[k].first = artPages[k].fromPage + 1
           /\ artPages[k].first > artPages[k - 1].last

\* a second article began on a new page although the page before had room
C4_Witness ==
  /\ Len(artPages) = 2
  /\ artPages[2].room
  /\ artPages[1].last = 1
  /\ artPages[2].first = 2

\* C5: a drawn image starts at the cursor left by ensureSpace, its scale and
\* drawn height are those computed from that position and not from the one
\* before the break decision, and its bottom edge is not below the page bottom.
C5_ImageTwoPhase ==
  img.t = "drawn" =>
    /\ img.startY = img.cursor.y
    /\ img.cursor = ensureSpace(img.before, img.estH + 80)
    /\ FracEq(img.scale,
              imageScale(img.v[1], img.v[2], pageWidth, MaxHeightAt(img.cursor.y)))
    /\ img.drawH = Scaled(img.v[2], img.scale)
    /\ img.startY + img.drawH <= pageBottom

\* an image that did not fit was moved to a new page and measured again there
C5_Witness ==
  /\ img.t = "drawn"
  /\ img.cursor.page = img.before.page + 1
  /\ img.startY = MARGIN
  /\ img.drawH > pageBottom - img.before.y

\* min(pageWidth / w, maxH / h, 1) for an image of w by h pixels
ScaleFor(w, h, maxH) ==
  FracMin(FracMin(<<pageWidth, 10 * w>>, <<maxH, 10 * h>>), <<1, 1>>)

\* C6 as amended: the scale of a drawn image is min(pageWidth / w, maxH / h, 1),
\* where maxH is min(MAX_IMG_HEIGHT, available) when available, the height left
\* above the bottom margin less one point, is positive, and MAX_IMG_HEIGHT when
\* it is zero; the image is never larger than native, never wider than the
\* page width, never taller than MAX_IMG_HEIGHT, never below the bottom margin,
\* never taller than a positive available height, and both sides are scaled by
\* the same factor.
C6_ScaleAmended ==
  img.t = "drawn" =>
    LET w == img.v[1]
        h == img.v[2]
        maxH == IF img.available = 0 THEN MAX_IMG_HEIGHT
                ELSE Min(MAX_IMG_HEIGHT, img.available)
    IN /\ img.available = Max(0, pageBottom - img.startY - 100)
       /\ FracEq(img.scale, ScaleFor(w, h, maxH))
       /\ img.drawW = Scaled(w, img.scale) /\ img.drawH = Scaled(h, img.scale)
       /\ img.drawW <= 10 * w /\ img.drawH <= 10 * h
       /\ img.drawW <= pageWidth
       /\ img.drawH <= MAX_IMG_HEIGHT
       /\ img.drawH <= pageBottom - img.startY
       /\ img.available > 0 => img.drawH <= img.available

\* a small image drawn at native size where no height is available
C6_Witness ==
  /\ img.t = "drawn"
  /\ img.available = 0
  /\ img.cursor = img.before
  /\ FracEq(img.scale, <<1, 1>>)

\* C6 as stated: the scale is min(pageWidth / w, min(MAX_IMG_HEIGHT, available)
\* / h, 1) for every image drawn, and the image is never taller than the
\* available height.
C6_ScaleAsStated ==
  img.t = "drawn" =>
    /\ FracEq(img.scale,
              ScaleFor(img.v[1], img.v[2], Min(MAX_IMG_HEIGHT, img.available)))
    /\ img.drawH <= img.available

\* the image drawn last has a native aspect ratio of 2:1
TwoToOne == img.t = "drawn" /\ img.v[1] = 2 * img.v[2]

\* C17 as amended: an image of native ratio 2:1 is drawn twice as wide as
\* high, and its height is the least of its native height, MAX_IMG_HEIGHT and
\* the height available at its start when that is positive; so it is drawn at
\* MAX_IMG_HEIGHT by twice that exactly when it is natively at least that
\* high and the page leaves that much room or none.
C17_TwoToOneAmended ==
  TwoToOne =>
    LET native == 10 * img.v[2]
        room == IF img.available = 0 THEN MAX_IMG_HEIGHT ELSE img.available
    IN /\ img.drawW = 2 * img.drawH
       /\ img.drawH = Min(native, Min(MAX_IMG_HEIGHT, room))
       /\ img.drawH = MAX_IMG_HEIGHT <=>
            (native >= MAX_IMG_HEIGHT /\ room >= MAX_IMG_HEIGHT)

\* an image of 1024 by 512 pixels drawn at the cap by twice the cap
C17_Witness ==
  /\ TwoToOne
  /\ img.v = <<1024, 512>>
  /\ img.available >= MAX_IMG_HEIGHT
  /\ img.drawH = MAX_IMG_HEIGHT
  /\ img.drawW = 2 * MAX_IMG_HEIGHT

\* C17 as stated: whatever its native size, a 2:1 image is drawn at
\* pageWidth by pageWidth / 2, or at twice MAX_IMG_HEIGHT by MAX_IMG_HEIGHT
\* when pageWidth / 2 exceeds MAX_IMG_HEIGHT.
C17_TwoToOneAsStated ==
  TwoToOne =>
    IF pageWidth > 2 * MAX_IMG_HEIGHT
      THEN img.drawH = MAX_IMG_HEIGHT /\ img.drawW = 2 * MAX_IMG_HEIGHT
      ELSE img.drawW = pageWidth /\ 2 * img.drawH = pageWidth

C7_ImageSkip ==
  [][/\ (ppc = "image" /\ imgSkips' # imgSkips) =>
          /\ cur' = cur
          /\ artPages' = artPages
          /\ buffers' = buffers
          /\ img'.t = "skipped"
          /\ bi' = bi + 1 /\ bi' <= nBlocks
          /\ ppc' = "blocks"
     /\ (result' # Null /\ imgSkips' > 0) => AllEmitted']_vars

\* a document of two articles was returned although an image was skipped
C7_Witness ==
  /\ result # Null
  /\ imgSkips > 0
  /\ Len(artPages) = 2
  /\ AllEmitted

\* the comprehension argument is present and non-empty
HasQuiz == compr # Null /\ Len(compr.v) # 0

\* the Answers part has rendered section s
Answered(s) ==
  /\ HasQuiz
  /\ s \in 1..Len(compr.v)
  /\ \/ ppc = "answers" /\ si > s
     \/ Ended

IsAnswerOf(s, e) == e.k = "a" /\ e.s = s

\* the answer lines rendered for section s
AnswerLines(s) == SelectSeq(qlog, LAMBDA e : IsAnswerOf(s, e))

Strip(e) == [k |-> e.k, s |-> e.s, i |-> e.i, text |-> e.text]

\* the title of section s and its questions numbered from 1
QuestionBlock(sec, s) ==
  <<[k |-> "title", s |-> s, i |-> 0, text |-> TitleOf(sec)]>>
    \o [i \in 1..Len(sec.questions) |->
          [k |-> "q", s |-> s, i |-> i, text |-> sec.questions[i]]]

RECURSIVE QuestionBlocks(_, _)
QuestionBlocks(secs, s) ==
  IF s > Len(secs) THEN <<>>
  ELSE QuestionBlock(secs[s], s) \o QuestionBlocks(secs, s + 1)

Breaks == {j \in 1..Len(qlog) : qlog[j].k = "break"}

IsTitle(e) == e.k = "title"

\* C9: with a non-empty comprehension, buildPdf adds a page after the last
\* article, renders 'Comprehension' on it with every section's title and its
\* questions numbered from 1 in order, adds a second page, and renders
\* 'Answers' with the titles of the same sections in the same order; with an
\* absent or empty comprehension it adds no page and renders nothing.
C9_TrailingSections ==
  /\ (ppc \in {"end", "ended", "resolved"} /\ ~HasQuiz) =>
       qlog = <<>> /\ cur.page = LastArticlePage
  /\ (Ended /\ HasQuiz) =>
       /\ Cardinality(Breaks) = 2
       /\ 1 \in Breaks
       /\ LET b == CHOOSE j \in Breaks : j # 1
              n == Len(compr.v)
              answers == SubSeq(qlog, b + 2, Len(qlog))
              titles == SelectSeq(answers, IsTitle)
          IN /\ Strip(qlog[2]) =
                  [k |-> "head", s |-> 0, i |-> 0, text |-> <<"Comprehension">>]
             /\ qlog[2].page = LastArticlePage + 1
             /\ [j \in 1..(b - 3) |-> Strip(qlog[j + 2])] = QuestionBlocks(compr.v, 1)
             /\ \A j \in 3..(b - 1) : qlog[j].page >= qlog[j - 1].page
             /\ Strip(qlog[b + 1]) =
                  [k |-> "head", s |-> 0, i |-> 0, text |-> <<"Answers">>]
             /\ qlog[b + 1].page = qlog[b - 1].page + 1
             /\ \A j \in 1..Len(answers) : answers[j].k \in {"title", "a"}
             /\ Len(titles) = n
             /\ \A s \in 1..n :
                  /\ titles[s].s = s
                  /\ titles[s].text = TitleOf(compr.v[s])

\* both trailing sections of a two-section comprehension were rendered
C9_Witness ==
  /\ ppc = "resolved"
  /\ HasQuiz
  /\ Len(compr.v) = 2
  /\ Cardinality(Breaks) = 2
  /\ cur.page >= LastArticlePage + 2

\* what buildPdf returns is complete
Complete ==
  result # Null =>
    /\ AllEmitted
    /\ HasQuiz => si = Len(compr.v) + 1 /\ Cardinality(Breaks) = 2
    /\ docEnded
    /\ endFired
    /\ result.v = [j \in 1..Pushed |-> j]

\* C10: buildPdf returns only after every article and trailing section is
\* emitted, doc.end() is called and 'end' has fired; it returns every chunk
\* the document pushed, in order; and once the article loop has returned the
\* promise is eventually resolved.
C10_Completion ==
  /\ []Complete
  /\ (ArticlesDone ~> result # Null)

\* a document of more than one page and with trailing sections was returned
C10_Witness ==
  /\ result # Null
  /\ HasQuiz
  /\ Len(result.v) >= 5
  /\ result.v = buffers
=============================================================================
